---- MODULE Spec2Model ----
(***************************************************************************)
(* Verification model of the IoT access-control platform: the edge gateway *)
(* (security manager, credential store, request pipeline, store-and-forward*)
(* buffer) and the cloud side (MQTT ingest, liveness detector).            *)
(***************************************************************************)
EXTENDS Integers, Sequences, FiniteSets, TLC

(***************************************************************************)
(* Bounds.  Durations are measured in model time units; the configuration  *)
(* values of the program (300 s, 1000 entries) are scaled down.            *)
(***************************************************************************)
timestamp_tolerance_seconds == 1
lockout_duration_seconds == 2
nonce_cache_size == 2
MaxTime == 6
DayLength == 4
buffer_max_size == 2
MaxMsgs == 3
MaxLinkChanges == 3
gateway_timeout == 2
device_timeout == 2
max_clock_drift == 3
MaxClock == 3
MaxIngest == 2
MaxTicks == 2
MaxSyncTime == 1
MaxRounds == 1
MaxPayloadLen == 1
DocChunks == 2
MaxSaves == 3
command_timeout == 2
cleanup_interval == 4
MaxCmdTime == 6
MaxCommands == 2
MaxHbTime == 40
MaxBroadcasts == 2
MaxFaults == 1
MaxFanCommands == 3
default_temp_threshold == 28
auto_fan_temp_threshold == 28
temp_threshold_User3 == 30
ws_queue_maxsize == 2
expected_heartbeat_interval == 3    \* 30 s, in steps of 10 s
hb_gateway_timeout == 9             \* 90 s
check_interval == 1                 \* 10 s
heartbeat_interval_PD == 6          \* 60 s
heartbeat_interval_User1 == 30      \* 300 s
heartbeat_interval_gateway_Anh == 6 \* 60 s
VersionSpace == 5

max_failed_attempts == 5

Null == "null"
Missing == "missing"

Devices == {"keypad_01"}
Builds == {"PD", "GM"}

VARIABLES
  build,            \* which gateway program runs: Physical_Devices/Gateway/vps_main.py or Gateway/main.py
  now,              \* wall clock
  failed_attempts,  \* SecurityManager.failed_attempts
  lockout_until,    \* SecurityManager.lockout_until
  used_nonces,      \* SecurityManager.used_nonces
  passwords,        \* Database.devices['passwords']
  rfid_cards,       \* Database.devices['rfid_cards']
  access_rules,     \* Database.devices['access_rules']
  last_access,      \* Database.settings['last_access']
  local_out,        \* responses published to the device by the last handled request
  vps_out,          \* messages handed to forward_to_vps by the last handled request
  sec_calls,        \* history: SecurityManager methods the last handled request called
  g_run,            \* history: per device, recorded failures since its last recorded success
  g_last,           \* history: per device, time of its last recorded failure
  last_granted,     \* history: the request just answered with OPEN, if any
  replayed,         \* history: the request just granted, when the last handled request repeated it
  nonce_calls,      \* history: validate_nonce calls made directly, with their results
  vps_connected,    \* Gateway.vps_connected
  link_up,          \* the transport to the cloud broker, as it really is
  link_changes,     \* number of times the transport changed or refused
  vps_events,       \* callbacks the cloud MQTT client's network thread has still to run
  buffer,           \* Gateway.buffer
  buffer_lock,      \* Gateway.buffer_lock: "free" or the thread holding it
  pc,               \* where each thread stands
  cur,              \* per worker, the message forward_to_vps is handling
  next_id,          \* the next message a worker forwards
  published,        \* calls of vps_mqtt.publish, in call order
  forwarded,        \* history: completed forward_to_vps calls, in order of completion
  flush_count,      \* history: flush_buffer invocations that took the lock
  last_flush,       \* history: the last such invocation
  clock,            \* the cloud server's wall clock
  gateways,         \* table gateways: gateway_id -> status, last_seen
  devices,          \* table devices: (gateway_id, device_id) -> status, last_seen
  system_logs,      \* table system_logs, in insertion order
  det_pc,           \* where OfflineDetector._detection_loop stands
  det_rows,         \* rows the detector's last UPDATE ... RETURNING returned
  ingested,         \* number of MQTT messages the cloud has handled
  ticks,            \* number of detector ticks begun
  last_tick         \* history: what the current or last detector tick did

storeVars == <<passwords, rfid_cards, access_rules, last_access>>
secVars == <<failed_attempts, lockout_until, used_nonces>>
histVars == <<sec_calls, g_run, g_last, last_granted, replayed>>
authVars == <<build, now, secVars, storeVars, local_out, vps_out, histVars>>

bufVars == <<vps_connected, link_up, link_changes, vps_events, buffer, buffer_lock, pc, cur,
             next_id, published, forwarded, flush_count, last_flush>>

cloudVars == <<clock, gateways, devices, system_logs, det_pc, det_rows, ingested, ticks,
               last_tick>>

VARIABLES
  srv_db,           \* the cloud database rows the sync endpoint reads for the gateway
  gw_db,            \* Gateway/src Database.devices (and devices.json, saved with it)
  sync_clock,       \* wall clock of the sync model
  sync_resp,        \* the sync response on its way to the gateway, if any
  sync_rounds,      \* number of sync requests made
  last_sync_server, \* Database.settings['sync']['last_sync_server']
  sync_last         \* history: the sync round the gateway just finished

syncVars == <<srv_db, gw_db, sync_clock, sync_resp, sync_rounds, last_sync_server, sync_last>>

VARIABLES
  frame,            \* the frame a device sends
  wire,             \* its bytes on the serial link
  flipped,          \* the bit of the wire the link flipped, if any
  frame_pc,         \* "new", "encoded" or "decoded"
  decoder,          \* the decoder the bytes were given to
  decoded           \* what the decoder returned

frameVars == <<frame, wire, flipped, frame_pc, decoder, decoded>>

VARIABLES
  file_primary,     \* devices.json on disk
  file_backup,      \* devices.json.backup on disk
  mem_data,         \* Database.devices in memory
  save_pc,          \* where _save_json stands, or "down" when the process has stopped
  saves,            \* number of saves started
  save_last,        \* history: contents before the last save started, and the contents it writes
  load_last         \* history: what the load after the last stop returned

fileVars == <<file_primary, file_backup, mem_data, save_pc, saves, save_last, load_last>>

VARIABLES
  cmd_now,          \* wall clock of the remote-control model
  pending_commands, \* RemoteControlManager.pending_commands
  next_sweep,       \* when cleanup_loop wakes up next
  cmd_responses,    \* command responses published to the cloud
  cmd_local_out,    \* commands published to the devices on the local broker
  cmd_forwarded,    \* remote_access logs handed to forward_to_vps
  received,         \* history: per accepted command, when it was received
  acked,            \* history: per acknowledged command, when the status message came
  expired           \* history: commands cleanup_old_commands reported as expired

cmdVars == <<cmd_now, pending_commands, next_sweep, cmd_responses, cmd_local_out, cmd_forwarded,
             received, acked, expired>>

VARIABLES
  command_logs,     \* table command_logs of the cloud database
  cloud_commands,   \* command messages the cloud published to gateway/{id}/command/{dev}
  command_events,   \* history: the inserts and publishes of send_command, in order
  command_replies,  \* HTTP answers of the command endpoint
  ack_ingested      \* history: command_ids whose acknowledgement on_message has handled

logVars == <<command_logs, cloud_commands, command_events, command_replies, ack_ingested>>

VARIABLES
  hb_build,         \* which gateway program runs
  hb_now,           \* wall clock of the heartbeat model, in steps of 10 s
  hb_wake,          \* when the gateway's heartbeat thread wakes up next
  hb_row,           \* the gateway's row of table gateways: status and last_seen
  hb_check,         \* when the detection loop runs next
  hb_beats,         \* history: when the gateway published a heartbeat
  hb_marked         \* history: when the detector marked the gateway offline

hbVars == <<hb_build, hb_now, hb_wake, hb_row, hb_check, hb_beats, hb_marked>>

VARIABLES
  ws_broadcast_queue,  \* mqtt_service.ws_broadcast_queue: descriptors waiting for the pump
  active_connections,  \* WebSocketManager.active_connections: user_id -> set of sockets
  ws_pc,               \* where the pump is: "idle", or "sending" inside broadcast_to_user
  ws_iter,             \* the running for-loop of broadcast_to_user
  ws_puts,             \* number of descriptors queued so far
  ws_sent,             \* history: what send_json delivered, and to whom
  ws_done              \* history: the broadcasts that ended

wsVars == <<ws_broadcast_queue, active_connections, ws_pc, ws_iter, ws_puts, ws_sent, ws_done>>


VARIABLES
  nv_build,         \* "PD": SecurityManager.validate_nonce, "GS": verify_freshness
  nv_nonce,         \* per thread, the nonce of the request it validates
  nv_pc,            \* per thread, where it is inside the validation
  nv_lock,          \* SecurityManager.lock / nonce_lock: the thread holding it, or Null
  nv_used,          \* used_nonces / recent_nonces
  nv_ret,           \* per thread, what the validation returned ("pending": not yet)
  nv_overlap        \* history: a thread called while another was inside the validation

nvVars == <<nv_build, nv_nonce, nv_pc, nv_lock, nv_used, nv_ret, nv_overlap>>


VARIABLES
  cmd_routed        \* command_ids of the cloud's command messages the broker has routed

pathVars == <<cmd_routed>>


VARIABLES
  faults,           \* number of statements of the detector that raised a storage error
  det_marks,        \* history: per gateway, how often the detector marked it offline
  det_cascades      \* history: per gateway, how often its cascade UPDATE was applied

faultVars == <<faults, det_marks, det_cascades>>


VARIABLES
  fan_build,        \* the gateway program whose automation runs
  auto_fan_enabled, \* settings['automation']['auto_fan_enabled']
  fan_state,        \* the tracked fan state: Null (unknown), "on" or "off"
  fan_commands,     \* commands published to the fan device, in order
  fan_sample        \* history: the last temperature sample and what the automation did

fanVars == <<fan_build, auto_fan_enabled, fan_state, fan_commands, fan_sample>>


VARIABLES
  rule_call,        \* the last call of check_access_rules: program, rules, method, user, time
  rule_result       \* what that call returned

ruleVars == <<rule_call, rule_result>>


VARIABLES
  stream_build,     \* the program whose receive loop reads the serial link
  stream,           \* the bytes the link carries, with the frames they were made of
  fed,              \* how many of them have been read so far
  lora_buffer,      \* the receive loop's retained buffer
  emitted           \* history: the frames the parser has handed on, in order

streamVars == <<stream_build, stream, fed, lora_buffer, emitted>>


VARIABLES
  tn_msg,           \* the last message the cloud ingested
  tn_writes,        \* history: the rows that message inserted or updated, with their owner
  tn_broadcasts     \* history: the users that message queued a UI broadcast for

tenantVars == <<tn_msg, tn_writes, tn_broadcasts>>


VARIABLES
  rc_dev,           \* history: per devices row, when the cloud last received a message that sets it online
  rc_gw             \* history: per gateway, when the cloud last received a heartbeat of it

recvVars == <<rc_dev, rc_gw>>


coreVars == <<authVars, nonce_calls, bufVars, cloudVars>>
extVars == <<syncVars, frameVars, fileVars, cmdVars, logVars, hbVars, wsVars, nvVars, pathVars, faultVars, fanVars, ruleVars, streamVars, tenantVars, recvVars>>
exceptSync == <<frameVars, fileVars, cmdVars, logVars, hbVars, wsVars, nvVars, pathVars, faultVars, fanVars, ruleVars, streamVars, tenantVars, recvVars>>
exceptFrame == <<syncVars, fileVars, cmdVars, logVars, hbVars, wsVars, nvVars, pathVars, faultVars, fanVars, ruleVars, streamVars, tenantVars, recvVars>>
exceptFile == <<syncVars, frameVars, cmdVars, logVars, hbVars, wsVars, nvVars, pathVars, faultVars, fanVars, ruleVars, streamVars, tenantVars, recvVars>>
exceptCmd == <<syncVars, frameVars, fileVars, logVars, hbVars, wsVars, nvVars, pathVars, faultVars, fanVars, ruleVars, streamVars, tenantVars, recvVars>>
exceptLog == <<syncVars, frameVars, fileVars, cmdVars, hbVars, wsVars, nvVars, pathVars, faultVars, fanVars, ruleVars, streamVars, tenantVars, recvVars>>
exceptHb == <<syncVars, frameVars, fileVars, cmdVars, logVars, wsVars, nvVars, pathVars, faultVars, fanVars, ruleVars, streamVars, tenantVars, recvVars>>
exceptWs == <<syncVars, frameVars, fileVars, cmdVars, logVars, hbVars, nvVars, pathVars, faultVars, fanVars, ruleVars, streamVars, tenantVars, recvVars>>
exceptNv == <<syncVars, frameVars, fileVars, cmdVars, logVars, hbVars, wsVars, pathVars, faultVars, fanVars, ruleVars, streamVars, tenantVars, recvVars>>
exceptPath == <<syncVars, frameVars, fileVars, cmdVars, logVars, hbVars, wsVars, nvVars, faultVars, fanVars, ruleVars, streamVars, tenantVars, recvVars>>
exceptFault == <<syncVars, frameVars, fileVars, cmdVars, logVars, hbVars, wsVars, nvVars, pathVars, fanVars, ruleVars, streamVars, tenantVars, recvVars>>
exceptFan == <<syncVars, frameVars, fileVars, cmdVars, logVars, hbVars, wsVars, nvVars, pathVars, faultVars, ruleVars, streamVars, tenantVars, recvVars>>
exceptRule == <<syncVars, frameVars, fileVars, cmdVars, logVars, hbVars, wsVars, nvVars, pathVars, faultVars, fanVars, streamVars, tenantVars, recvVars>>
exceptStream == <<syncVars, frameVars, fileVars, cmdVars, logVars, hbVars, wsVars, nvVars, pathVars, faultVars, fanVars, ruleVars, tenantVars, recvVars>>
exceptTenant == <<syncVars, frameVars, fileVars, cmdVars, logVars, hbVars, wsVars, nvVars, pathVars, faultVars, fanVars, ruleVars, streamVars, recvVars>>
exceptRecv == <<syncVars, frameVars, fileVars, cmdVars, logVars, hbVars, wsVars, nvVars, pathVars, faultVars, fanVars, ruleVars, streamVars, tenantVars>>

vars == <<coreVars, extVars>>

(***************************************************************************)
(* Python dict helpers                                                     *)
(***************************************************************************)
Get(f, k, default) == IF k \in DOMAIN f THEN f[k] ELSE default
Put(f, k, v) == [x \in (DOMAIN f) \cup {k} |-> IF x = k THEN v ELSE f[x]]
Pop(f, k) == [x \in (DOMAIN f) \ {k} |-> f[x]]
EmptyDict == [x \in {} |-> 0]

Abs(x) == IF x < 0 THEN 0 - x ELSE x

InSeq(s, x) == \E i \in 1..Len(s) : s[i] = x

\* collections.deque(maxlen=n).append
\* a plain list in place of deque(maxlen=...): nothing is ever evicted
DequeAppend_unbounded(q, x, maxlen) == Append(q, x)

DequeAppend(q, x, maxlen) ==
  IF Len(q) >= maxlen THEN Append(Tail(q), x) ELSE Append(q, x)

(***************************************************************************)
(* SecurityManager (Physical_Devices/Gateway/vps_main.py, and the          *)
(* identical class of Gateway/main.py).  S is the object's state           *)
(* [fa: failed_attempts, lu: lockout_until, un: used_nonces]; an operation *)
(* yields [ret |-> its return value, S |-> the state it leaves].           *)
(***************************************************************************)
\* a lockout that every request met while it lasts starts again
is_locked_out_sliding(S, device_id, t) ==
  IF device_id \in DOMAIN S.lu
  THEN IF t < S.lu[device_id]
       THEN [ret |-> TRUE,
             S |-> [S EXCEPT !.lu = Put(S.lu, device_id, t + lockout_duration_seconds)]]
       ELSE [ret |-> FALSE,
             S |-> [S EXCEPT !.lu = Pop(S.lu, device_id),
                             !.fa = Put(S.fa, device_id, 0)]]
  ELSE [ret |-> FALSE, S |-> S]

is_locked_out(S, device_id, t) ==
  IF device_id \in DOMAIN S.lu
  THEN IF t < S.lu[device_id]
       THEN [ret |-> TRUE, S |-> S]
       ELSE [ret |-> FALSE,
             S |-> [S EXCEPT !.lu = Pop(S.lu, device_id),
                             !.fa = Put(S.fa, device_id, 0)]]
  ELSE [ret |-> FALSE, S |-> S]

\* the threshold compared with > in place of >=
record_failed_attempt_gt(S, device_id, t) ==
  LET n == Get(S.fa, device_id, 0) + 1
      fa2 == Put(S.fa, device_id, n)
  IN IF n > max_failed_attempts
     THEN [ret |-> TRUE,
           S |-> [S EXCEPT !.fa = fa2,
                           !.lu = Put(S.lu, device_id, t + lockout_duration_seconds)]]
     ELSE [ret |-> FALSE, S |-> [S EXCEPT !.fa = fa2]]

record_failed_attempt(S, device_id, t) ==
  LET n == Get(S.fa, device_id, 0) + 1
      fa2 == Put(S.fa, device_id, n)
  IN IF n >= max_failed_attempts
     THEN [ret |-> TRUE,
           S |-> [S EXCEPT !.fa = fa2,
                           !.lu = Put(S.lu, device_id, t + lockout_duration_seconds)]]
     ELSE [ret |-> FALSE, S |-> [S EXCEPT !.fa = fa2]]

record_success(S, device_id) ==
  [S EXCEPT !.fa = Pop(S.fa, device_id), !.lu = Pop(S.lu, device_id)]

validate_timestamp(timestamp, t) ==
  Abs(t - timestamp) <= timestamp_tolerance_seconds

validate_nonce(S, nonce) ==
  IF InSeq(S.un, nonce)
  THEN [ret |-> FALSE, S |-> S]
  ELSE [ret |-> TRUE, S |-> [S EXCEPT !.un = DequeAppend(S.un, nonce, nonce_cache_size)]]

\* verify_hmac: the digest of body under the shared key, compared with the received one
hmac_key == "k_gateway"
compute_hmac(body, key) == <<"hmac", key, body>>
\* a comparison that accepts every digest
verify_hmac_any(body, received_hmac, key) == TRUE

verify_hmac(body, received_hmac, key) == compute_hmac(body, key) = received_hmac

(***************************************************************************)
(* Credential store.  A JSON object is an ordered dict: a sequence of      *)
(* entries in insertion order.  NoTime stands for a null time field.       *)
(***************************************************************************)
NoTime == -1
NowStart == timestamp_tolerance_seconds + 1   \* the wall clock is far past the epoch
ExpiresAt == NowStart + 1

InitPasswords ==
  << [id |-> "pw_owner", hash |-> "h1", active |-> TRUE,  expires_at |-> NoTime,    last_used |-> NoTime],
     [id |-> "pw_guest", hash |-> "h2", active |-> TRUE,  expires_at |-> ExpiresAt, last_used |-> NoTime],
     [id |-> "pw_old",   hash |-> "h3", active |-> FALSE, expires_at |-> NoTime,    last_used |-> NoTime] >>

InitCards ==
  << [uid |-> "a1b2c3d4", active |-> TRUE,  expires_at |-> NoTime,    last_used |-> NoTime],
     [uid |-> "c2c2c2c2", active |-> TRUE,  expires_at |-> ExpiresAt, last_used |-> NoTime],
     [uid |-> "c3c3c3c3", active |-> FALSE, expires_at |-> NoTime,    last_used |-> NoTime] >>

RuleNight == [name |-> "night", enabled |-> TRUE, start_time |-> DayLength - 1, end_time |-> 0,
              allowed_methods |-> {"rfid"}, restricted_users |-> {}]
RuleDay == [name |-> "day", enabled |-> TRUE, start_time |-> 1, end_time |-> DayLength - 2,
            allowed_methods |-> {"passkey", "rfid"}, restricted_users |-> {"pw_guest", "c2c2c2c2"}]
RuleOff == [name |-> "off", enabled |-> FALSE, start_time |-> 0, end_time |-> DayLength - 1,
            allowed_methods |-> {}, restricted_users |-> {}]
RuleConfigs == { <<>>, <<RuleOff, RuleNight, RuleDay>> }

TimeOfDay(t) == t % DayLength

\* the first entry of an ordered dict at which an iteration stops, given the indices
\* that satisfy the loop's condition; 0 if the loop runs to its end
FirstMatch(hits) ==
  IF hits = {} THEN 0 ELSE CHOOSE i \in hits : \A j \in hits : i <= j

\* Database.authenticate_rfid
authenticate_rfid(cards, uid) ==
  LET i == FirstMatch({k \in 1..Len(cards) : cards[k].uid = uid})
  IN i # 0 /\ cards[i].active

\* Database.authenticate_passkey
authenticate_passkey(pws, password_hash) ==
  LET i == FirstMatch({k \in 1..Len(pws) : pws[k].hash = password_hash /\ pws[k].active})
  IN IF i # 0 THEN [is_valid |-> TRUE, pwd_id |-> pws[i].id]
     ELSE [is_valid |-> FALSE, pwd_id |-> Null]

in_range(rule, tod) ==
  IF rule.start_time <= rule.end_time
  THEN rule.start_time <= tod /\ tod <= rule.end_time
  ELSE tod >= rule.start_time \/ tod <= rule.end_time

\* Database.check_access_rules (Physical_Devices/Gateway/vps_main.py)
check_access_rules(rules, method, user_id, t) ==
  LET i == FirstMatch({k \in 1..Len(rules) :
                         rules[k].enabled /\ in_range(rules[k], TimeOfDay(t))})
  IN IF i = 0 THEN [allowed |-> TRUE, reason |-> Null]
     ELSE IF method \notin rules[i].allowed_methods
          THEN [allowed |-> FALSE, reason |-> "method_not_allowed_" \o rules[i].name]
     ELSE IF user_id \in rules[i].restricted_users
          THEN [allowed |-> FALSE, reason |-> "user_restricted_" \o rules[i].name]
     ELSE [allowed |-> TRUE, reason |-> Null]

(***************************************************************************)
(* Device requests.  A payload is the decoded MQTT message; body is the    *)
(* string the device signed, given here by what json.loads makes of it.    *)
(***************************************************************************)
BodyTs(body) == IF body.has_ts THEN body.ts ELSE 0            \* body.get('ts', 0)
BodyNonce(body) == IF body.has_nonce THEN body.nonce ELSE 0   \* body.get('nonce', 0)

Lock(device_id, reason) == [device |-> device_id, cmd |-> "LOCK", reason |-> reason]
Open(device_id) == [device |-> device_id, cmd |-> "OPEN", reason |-> Null]

SecurityAlert(device_id, event, t) ==
  [type |-> "security_alert", device |-> device_id, event |-> event,
   result |-> Null, id |-> Null, deny_reason |-> Null, timestamp |-> t]
AccessAttempt(device_id, method, granted, id, deny_reason, t) ==
  [type |-> "access_attempt", device |-> device_id, event |-> method,
   result |-> IF granted THEN "granted" ELSE "denied",
   id |-> id, deny_reason |-> deny_reason, timestamp |-> t]

NoAccess == [method |-> Null, id |-> Null]

\* what a handler leaves behind: security state, local responses, cloud messages, store,
\* and the SecurityManager methods it called, in call order
Outcome(S, local, vps, pws, la, calls) ==
  [S |-> S, local |-> local, vps |-> vps, passwords |-> pws, last_access |-> la,
   calls |-> calls]

\* Gateway.handle_passkey_request (Physical_Devices/Gateway/vps_main.py)
handle_passkey_request(S, device_id, body, t, pws, rules, la, calls) ==
  LET auth == authenticate_passkey(pws, body.pw)
      rule == IF auth.is_valid
              THEN check_access_rules(rules, "passkey", auth.pwd_id, t)
              ELSE [allowed |-> TRUE, reason |-> "invalid_password"]
      granted == auth.is_valid /\ rule.allowed
      log == AccessAttempt(device_id, "passkey", granted, auth.pwd_id,
                           IF rule.allowed THEN Null ELSE rule.reason, t)
  IN IF granted
     THEN Outcome(record_success(S, device_id), <<Open(device_id)>>, <<log>>, pws,
                  [method |-> "passkey", id |-> auth.pwd_id],
                  Append(calls, "record_success"))
     ELSE Outcome(record_failed_attempt(S, device_id, t).S,
                  <<Lock(device_id, rule.reason)>>, <<log>>, pws, la,
                  Append(calls, "record_failed_attempt"))

\* Gateway.handle_request (Physical_Devices/Gateway/vps_main.py)
handle_request(S, device_id, payload, t, pws, rules, la) ==
  LET lo == is_locked_out(S, device_id, t)
      S1 == lo.S
      Fail(reason, vps, calls) ==
        Outcome(record_failed_attempt(S1, device_id, t).S,
                <<Lock(device_id, reason)>>, vps, pws, la,
                Append(calls, "record_failed_attempt"))
      body == payload.body
      c1 == <<"is_locked_out">>
      c5 == Append(c1, "validate_timestamp")
      c6 == Append(c5, "validate_nonce")
  IN IF lo.ret
       THEN Outcome(S1, <<Lock(device_id, "locked_out")>>, <<>>, pws, la, c1)
     ELSE IF ~payload.has_hmac \/ ~payload.has_body
       THEN Fail("invalid_format", <<>>, c1)
     ELSE IF ~verify_hmac(payload.body, payload.hmac, hmac_key)
       THEN Fail("invalid_signature",
                 <<SecurityAlert(device_id, "hmac_verification_failed", t)>>, c1)
     ELSE IF ~body.json_ok
       THEN Fail("invalid_json", <<>>, c1)
     ELSE IF ~validate_timestamp(BodyTs(body), t)
       THEN Fail("invalid_timestamp", <<>>, c5)
     ELSE LET vn == validate_nonce(S1, BodyNonce(body))
          IN IF ~vn.ret
               THEN Fail("replay_attack", <<>>, c6)
             ELSE IF body.cmd = "unlock_request"
               THEN handle_passkey_request(vn.S, device_id, body, t, pws, rules, la, c6)
             ELSE Outcome(vn.S, <<>>, <<>>, pws, la, c6)

\* Database.check_access_rules (Gateway/main.py)
check_access_rules_GM(rules, method, user_id, t) ==
  LET i == FirstMatch({k \in 1..Len(rules) :
                         rules[k].enabled /\ in_range(rules[k], TimeOfDay(t))})
  IN IF i = 0 THEN [allowed |-> TRUE, reason |-> Null]
     ELSE IF method \notin rules[i].allowed_methods
          THEN [allowed |-> FALSE, reason |-> "access_denied_" \o rules[i].name]
     ELSE IF user_id # Null /\ user_id \in rules[i].restricted_users
          THEN [allowed |-> FALSE, reason |-> "user_restricted_" \o rules[i].name]
     ELSE [allowed |-> TRUE, reason |-> Null]

\* Gateway.handle_passkey_request (Gateway/main.py)
handle_passkey_request_GM(S, device_id, body, t, pws, rules, la, calls) ==
  IF body.pw = Missing
  THEN Outcome(record_failed_attempt(S, device_id, t).S,
               <<Lock(device_id, "no_password")>>, <<>>, pws, la,
               Append(calls, "record_failed_attempt"))
  ELSE
  LET auth == authenticate_passkey(pws, body.pw)
      rule == IF auth.is_valid
              THEN check_access_rules_GM(rules, "passkey", auth.pwd_id, t)
              ELSE [allowed |-> TRUE, reason |-> "invalid_password"]
      granted == auth.is_valid /\ rule.allowed
      log == AccessAttempt(device_id, "passkey", granted, auth.pwd_id,
                           IF rule.allowed THEN Null ELSE rule.reason, t)
  IN IF granted
     THEN Outcome(record_success(S, device_id), <<Open(device_id)>>, <<log>>, pws,
                  [method |-> "passkey", id |-> auth.pwd_id],
                  Append(calls, "record_success"))
     ELSE Outcome(record_failed_attempt(S, device_id, t).S,
                  <<Lock(device_id, rule.reason)>>, <<log>>, pws, la,
                  Append(calls, "record_failed_attempt"))

\* Gateway.handle_request (Gateway/main.py): ts and nonce are validated only when truthy
handle_request_GM(S, device_id, payload, t, pws, rules, la) ==
  LET lo == is_locked_out(S, device_id, t)
      S1 == lo.S
      Fail(reason, vps, calls) ==
        Outcome(record_failed_attempt(S1, device_id, t).S,
                <<Lock(device_id, reason)>>, vps, pws, la,
                Append(calls, "record_failed_attempt"))
      body == payload.body
      ts_truthy == body.has_ts /\ body.ts # 0
      nonce_truthy == body.has_nonce /\ body.nonce # 0
      c1 == <<"is_locked_out">>
      c5 == IF ts_truthy THEN Append(c1, "validate_timestamp") ELSE c1
      c6 == IF nonce_truthy THEN Append(c5, "validate_nonce") ELSE c5
  IN IF lo.ret
       THEN Outcome(S1, <<Lock(device_id, "device_locked_out")>>, <<>>, pws, la, c1)
     ELSE IF ~payload.has_hmac \/ ~payload.has_body
       THEN Fail("invalid_message_format", <<>>, c1)
     ELSE IF ~verify_hmac(payload.body, payload.hmac, hmac_key)
       THEN Fail("invalid_signature",
                 <<SecurityAlert(device_id, "hmac_verification_failed", t)>>, c1)
     ELSE IF ~body.json_ok
       THEN Fail("invalid_json", <<>>, c1)
     ELSE IF ts_truthy /\ ~validate_timestamp(body.ts, t)
       THEN Fail("invalid_timestamp", <<>>, c5)
     ELSE LET vn == IF nonce_truthy THEN validate_nonce(S1, body.nonce)
                    ELSE [ret |-> TRUE, S |-> S1]
          IN IF ~vn.ret
               THEN Fail("replay_attack", <<>>, c6)
             ELSE IF body.cmd = "unlock_request"
               THEN handle_passkey_request_GM(vn.S, device_id, body, t, pws, rules, la, c6)
             ELSE Outcome(vn.S, <<>>, <<>>, pws, la, c6)

\* Gateway.handle_rfid_scan (Physical_Devices/Gateway/vps_main.py): the LoRa reply and the log
handle_rfid_scan(uid, t, cards, rules) ==
  LET is_valid == authenticate_rfid(cards, uid)
      rule == IF is_valid THEN check_access_rules(rules, "rfid", uid, t)
              ELSE [allowed |-> TRUE, reason |-> "invalid_card"]
      granted == is_valid /\ rule.allowed
  IN [local |-> <<[device |-> "rfid_gate_01", cmd |-> IF granted THEN "GRANT" ELSE "DENY5",
                   reason |-> IF granted THEN Null ELSE rule.reason]>>,
      vps |-> <<AccessAttempt("rfid_gate_01", "rfid", granted, uid,
                              IF granted THEN Null ELSE rule.reason, t)>>]

(***************************************************************************)
(* Inputs enumerated for the request pipeline                             *)
(***************************************************************************)
Hashes == {"h1", "h2", "h3", "hx", Missing}
Uids == {"a1b2c3d4", "c2c2c2c2", "c3c3c3c3", "ffffffff"}
RequestNonces == {0, 1}

Body(json_ok, cmd, pw, has_ts, ts, has_nonce, nonce) ==
  [json_ok |-> json_ok, cmd |-> cmd, pw |-> pw, has_ts |-> has_ts, ts |-> ts,
   has_nonce |-> has_nonce, nonce |-> nonce]

GarbageBody == Body(FALSE, Null, Missing, FALSE, 0, FALSE, 0)

\* the owner's unlock request with every shape of ts and nonce; the other passwords and
\* a command the gateway does not dispatch, well-formed
Bodies(t) ==
  {GarbageBody} \cup
  { Body(TRUE, "unlock_request", "h1", ts.has, ts.v, n.has, n.v) :
      ts \in {[has |-> FALSE, v |-> 0], [has |-> TRUE, v |-> t],
              [has |-> TRUE, v |-> t + timestamp_tolerance_seconds + 1]},
      n \in {[has |-> FALSE, v |-> 0]} \cup {[has |-> TRUE, v |-> x] : x \in RequestNonces} }
  \cup { Body(TRUE, "unlock_request", h, TRUE, t, TRUE, 1) : h \in Hashes }
  \cup { Body(TRUE, "status", Missing, TRUE, t, TRUE, 1) }

Signed(body, key) ==
  [has_hmac |-> TRUE, has_body |-> TRUE, hmac |-> compute_hmac(body, key), body |-> body]

Payloads(t) ==
  { Signed(b, hmac_key) : b \in Bodies(t) }
  \cup { Signed(Body(TRUE, "unlock_request", "h1", TRUE, t, TRUE, 1), "k_attacker"),
         [Signed(GarbageBody, hmac_key) EXCEPT !.has_hmac = FALSE],
         [Signed(GarbageBody, hmac_key) EXCEPT !.has_body = FALSE] }

SecState == [fa |-> failed_attempts, lu |-> lockout_until, un |-> used_nonces]

(***************************************************************************)
(* Request pipeline: state machine                                         *)
(***************************************************************************)
AuthInit ==
  /\ build \in Builds
  /\ now = NowStart
  /\ failed_attempts = EmptyDict
  /\ lockout_until = EmptyDict
  /\ used_nonces = <<>>
  /\ passwords = InitPasswords
  /\ rfid_cards = InitCards
  /\ access_rules \in RuleConfigs
  /\ last_access = NoAccess
  /\ local_out = <<>>
  /\ vps_out = <<>>
  /\ sec_calls = <<>>
  /\ g_run = [d \in Devices |-> 0]
  /\ g_last = [d \in Devices |-> NoTime]
  /\ last_granted = <<>>
  /\ replayed = <<>>

Called(calls, method) == Cardinality({i \in 1..Len(calls) : calls[i] = method})

\* the state a handled request leaves, with the histories of what it did
Apply(out, device_id, payload) ==
  /\ failed_attempts' = out.S.fa
  /\ lockout_until' = out.S.lu
  /\ used_nonces' = out.S.un
  /\ passwords' = out.passwords
  /\ last_access' = out.last_access
  /\ local_out' = out.local
  /\ vps_out' = out.vps
  /\ sec_calls' = out.calls
  /\ g_run' = [g_run EXCEPT ![device_id] =
                 IF Called(out.calls, "record_success") > 0 THEN 0
                 ELSE @ + Called(out.calls, "record_failed_attempt")]
  /\ g_last' = [g_last EXCEPT ![device_id] =
                  IF Called(out.calls, "record_failed_attempt") > 0 THEN now ELSE @]
  /\ last_granted' = IF out.local = <<Open(device_id)>>
                     THEN <<[device |-> device_id, payload |-> payload]>>
                     ELSE <<>>
  /\ replayed' = IF last_granted = <<[device |-> device_id, payload |-> payload]>>
                 THEN last_granted ELSE <<>>
  /\ UNCHANGED <<build, now, rfid_cards, access_rules>>

\* on_local_message on a request topic, Physical_Devices build
LocalRequest(device_id, payload) ==
  /\ build = "PD"
  /\ Apply(handle_request(SecState, device_id, payload, now, passwords, access_rules,
                          last_access), device_id, payload)

\* on_local_message on a request topic, Gateway/main.py build
LocalRequestGM(device_id, payload) ==
  /\ build = "GM"
  /\ Apply(handle_request_GM(SecState, device_id, payload, now, passwords, access_rules,
                             last_access), device_id, payload)

\* a CRC-valid rfid_scan frame read from the LoRa serial link
RfidScan(uid) ==
  /\ build = "PD"
  /\ LET out == handle_rfid_scan(uid, now, rfid_cards, access_rules)
     IN /\ local_out' = out.local
        /\ vps_out' = out.vps
  /\ sec_calls' = <<>>
  /\ replayed' = <<>>
  /\ UNCHANGED <<build, now, secVars, storeVars, g_run, g_last, last_granted>>

Tick ==
  /\ now < MaxTime
  /\ now' = now + 1
  /\ last_granted' = <<>>
  /\ UNCHANGED <<build, secVars, storeVars, local_out, vps_out, sec_calls, g_run, g_last,
                 replayed>>

(***************************************************************************)
(* Store-and-forward buffer (Physical_Devices/Gateway/vps_main.py)         *)
(***************************************************************************)
Workers == {"local_mqtt", "main"}    \* threads that call forward_to_vps
\* what each thread forwards: telemetry of an MQTT device, access logs of the LoRa gate
Forwards(w) ==
  IF w = "local_mqtt" THEN [msg_type |-> "telemetry", device_id |-> "temp_01"]
  ELSE [msg_type |-> "logs", device_id |-> "rfid_gate_01"]
Topic(msg_type, device_id) == "gateway/" \o msg_type \o "/" \o device_id
StatusTopic == "gateway/status/Gateway1"

\* one call of vps_mqtt.publish: by is 0 for a direct publish, else the flush invocation
Published(topic, id, flushed, ok, by) ==
  [topic |-> topic, id |-> id, flushed |-> flushed, ok |-> ok, by |-> by]

NoFlush == [snapshot |-> <<>>, out |-> <<>>, left |-> <<>>, done |-> TRUE, dropped |-> FALSE]

BufInit ==
  /\ vps_connected = FALSE
  /\ link_up = FALSE
  /\ link_changes = 0
  /\ vps_events = <<>>
  /\ buffer = <<>>
  /\ buffer_lock = "free"
  /\ pc = [t \in Workers \cup {"vps"} |-> "idle"]
  /\ cur = [w \in Workers |-> [topic |-> Null, id |-> 0, down |-> FALSE]]
  /\ next_id = 1
  /\ published = <<>>
  /\ forwarded = <<>>
  /\ flush_count = 0
  /\ last_flush = NoFlush

\* forward_to_vps up to its test of vps_connected
ForwardCall(w, msg_type, device_id) ==
  /\ pc[w] = "idle"
  /\ next_id <= MaxMsgs
  /\ cur' = [cur EXCEPT ![w] = [topic |-> Topic(msg_type, device_id), id |-> next_id,
                                down |-> ~vps_connected]]
  /\ next_id' = next_id + 1
  /\ pc' = [pc EXCEPT ![w] = IF vps_connected THEN "publish" ELSE "append"]
  /\ UNCHANGED <<vps_connected, link_up, link_changes, vps_events, buffer, buffer_lock,
                 published, forwarded, flush_count, last_flush>>

\* forward_to_vps, connected branch: publish_to_vps
ForwardPublish(w) ==
  /\ pc[w] = "publish"
  /\ published' = Append(published, Published(cur[w].topic, cur[w].id, FALSE, link_up, 0))
  /\ forwarded' = Append(forwarded, [topic |-> cur[w].topic, id |-> cur[w].id,
                                     down |-> cur[w].down, route |-> "published"])
  /\ pc' = [pc EXCEPT ![w] = "idle"]
  /\ UNCHANGED <<vps_connected, link_up, link_changes, vps_events, buffer, buffer_lock, cur,
                 next_id, flush_count, last_flush>>

\* forward_to_vps, disconnected branch: with buffer_lock: buffer.append
ForwardAppend(w) ==
  /\ pc[w] = "append"
  /\ buffer_lock = "free"
  /\ buffer' = DequeAppend(buffer, [topic |-> cur[w].topic, id |-> cur[w].id],
                           buffer_max_size)
  /\ forwarded' = Append(forwarded, [topic |-> cur[w].topic, id |-> cur[w].id,
                                     down |-> cur[w].down, route |-> "buffered"])
  /\ pc' = [pc EXCEPT ![w] = "idle"]
  /\ UNCHANGED <<vps_connected, link_up, link_changes, vps_events, buffer_lock, cur,
                 next_id, published, flush_count, last_flush>>

\* the transport comes up: the client will run on_vps_connect with rc = 0
LinkUp ==
  /\ ~link_up
  /\ link_changes < MaxLinkChanges
  /\ link_up' = TRUE
  /\ link_changes' = link_changes + 1
  /\ vps_events' = Append(vps_events, "connect")
  /\ UNCHANGED <<vps_connected, buffer, buffer_lock, pc, cur, next_id, published, forwarded,
                 flush_count, last_flush>>

\* the transport is lost: the client will run on_vps_disconnect
LinkDown ==
  /\ link_up
  /\ link_changes < MaxLinkChanges
  /\ link_up' = FALSE
  /\ link_changes' = link_changes + 1
  /\ vps_events' = Append(vps_events, "disconnect")
  /\ last_flush' = [last_flush EXCEPT !.dropped = @ \/ ~last_flush.done]
  /\ UNCHANGED <<vps_connected, buffer, buffer_lock, pc, cur, next_id, published, forwarded,
                 flush_count>>

\* the broker refuses the connection: on_vps_connect with rc # 0
LinkRefused ==
  /\ ~link_up
  /\ link_changes < MaxLinkChanges
  /\ link_changes' = link_changes + 1
  /\ vps_events' = Append(vps_events, "refused")
  /\ UNCHANGED <<vps_connected, link_up, buffer, buffer_lock, pc, cur, next_id, published,
                 forwarded, flush_count, last_flush>>

\* on_vps_connect, rc = 0, up to the call of flush_buffer: the flag, the subscription and
\* send_gateway_status('online')
on_vps_connect ==
  /\ pc["vps"] = "idle"
  /\ vps_events # <<>> /\ Head(vps_events) = "connect"
  /\ vps_events' = Tail(vps_events)
  /\ vps_connected' = TRUE
  /\ published' = Append(published, Published(StatusTopic, 0, FALSE, link_up, 0))
  /\ pc' = [pc EXCEPT !["vps"] = "flush_buffer"]
  /\ UNCHANGED <<link_up, link_changes, buffer, buffer_lock, cur, next_id, forwarded,
                 flush_count, last_flush>>

\* on_vps_connect, rc # 0
on_vps_connect_failed ==
  /\ pc["vps"] = "idle"
  /\ vps_events # <<>> /\ Head(vps_events) = "refused"
  /\ vps_events' = Tail(vps_events)
  /\ vps_connected' = FALSE
  /\ UNCHANGED <<link_up, link_changes, buffer, buffer_lock, pc, cur, next_id, published,
                 forwarded, flush_count, last_flush>>

on_vps_disconnect ==
  /\ pc["vps"] = "idle"
  /\ vps_events # <<>> /\ Head(vps_events) = "disconnect"
  /\ vps_events' = Tail(vps_events)
  /\ vps_connected' = FALSE
  /\ UNCHANGED <<link_up, link_changes, buffer, buffer_lock, pc, cur, next_id, published,
                 forwarded, flush_count, last_flush>>

\* flush_buffer: with self.buffer_lock, and the return on an empty buffer
FlushEnter ==
  /\ pc["vps"] = "flush_buffer"
  /\ buffer_lock = "free"
  /\ IF buffer = <<>>
     THEN /\ pc' = [pc EXCEPT !["vps"] = "idle"]
          /\ UNCHANGED <<buffer_lock, flush_count, last_flush>>
     ELSE /\ pc' = [pc EXCEPT !["vps"] = "flushing"]
          /\ buffer_lock' = "vps"
          /\ flush_count' = flush_count + 1
          /\ last_flush' = [snapshot |-> buffer, out |-> <<>>, left |-> buffer,
                            done |-> FALSE, dropped |-> ~link_up]
  /\ UNCHANGED <<vps_connected, link_up, link_changes, vps_events, buffer, cur, next_id,
                 published, forwarded>>

\* the head read but left in the deque
popleft_peek(q) == [msg |-> Head(q), rest |-> q]

popleft(q) == [msg |-> Head(q), rest |-> Tail(q)]

\* the payload published as it was buffered
mark_flushed_not(msg) == Published(msg.topic, msg.id, FALSE, link_up, flush_count)

\* msg['payload']['_flushed'] = True
mark_flushed(msg) == Published(msg.topic, msg.id, TRUE, link_up, flush_count)

\* flush_buffer: one turn of the while loop (popleft, mark, publish_to_vps, sleep)
FlushOne ==
  /\ pc["vps"] = "flushing"
  /\ buffer # <<>>
  /\ LET p == popleft(buffer)
         rec == mark_flushed(p.msg)
     IN /\ buffer' = p.rest
        /\ published' = Append(published, rec)
        /\ last_flush' = [last_flush EXCEPT !.out = Append(@, rec)]
  /\ UNCHANGED <<vps_connected, link_up, link_changes, vps_events, buffer_lock, pc, cur,
                 next_id, forwarded, flush_count>>

\* flush_buffer: the loop ends on an empty buffer and the lock is released
FlushExit ==
  /\ pc["vps"] = "flushing"
  /\ buffer = <<>>
  /\ buffer_lock' = "free"
  /\ pc' = [pc EXCEPT !["vps"] = "idle"]
  /\ last_flush' = [last_flush EXCEPT !.done = TRUE, !.left = buffer]
  /\ UNCHANGED <<vps_connected, link_up, link_changes, vps_events, buffer, cur, next_id,
                 published, forwarded, flush_count>>

(***************************************************************************)
(* Cloud: MQTT ingest and the offline detector (Server_Python/api/services) *)
(***************************************************************************)
GatewayIds == {"Gateway1", "Gateway3"}
DeviceIds == {"temp_01", "rfid_gate_01"}
Row(gateway_id, device_id) == [gateway_id |-> gateway_id, device_id |-> device_id]

\* the rows of table devices: unique on (device_id, gateway_id); temp_01 is a device of
\* Gateway1 and of Gateway3
DeviceRows ==
  {Row("Gateway1", "temp_01"), Row("Gateway1", "rfid_gate_01"), Row("Gateway3", "temp_01")}

\* a row of system_logs: event, gateway_id, device_id, and metadata's reason,
\* detection_method or normalized_status
Log(event, gateway_id, device_id, meta) ==
  [event |-> event, gateway_id |-> gateway_id, device_id |-> device_id, meta |-> meta]

NoTick ==
  [marked |-> {}, cascaded |-> {}, not_offline |-> {}, log_start |-> 0,
   stale |-> {}, timed_out |-> {}, stale_left |-> {}]

CloudInit ==
  /\ clock = 0
  /\ gateways = [g \in GatewayIds |-> [status |-> "online", last_seen |-> 0]]
  /\ devices = [r \in DeviceRows |-> [status |-> "online", last_seen |-> 0]]
  /\ system_logs = <<>>
  /\ det_pc = "idle"
  /\ det_rows = {}
  /\ ingested = 0
  /\ ticks = 0
  /\ last_tick = NoTick

\* on_message: a message timestamp off by more than the allowed drift is replaced by
\* the server's time
MsgTimes == {clock} \cup {t \in {clock - max_clock_drift} : t >= 0}

\* append one log per element of a set of rows, in some order
RECURSIVE AppendAll(_, _)
AppendAll(logs, entries) ==
  IF entries = {} THEN logs
  ELSE LET x == CHOOSE y \in entries : TRUE
       IN AppendAll(Append(logs, x), entries \ {x})

\* MQTTService.update_device_last_seen_and_status
update_device_last_seen_and_status(device_id, gateway_id, timestamp) ==
  [r \in DeviceRows |->
     IF r.device_id = device_id /\ r.gateway_id = gateway_id
     THEN [status |-> "online", last_seen |-> timestamp]
     ELSE devices[r]]

\* MQTTService.handle_telemetry and MQTTService.handle_access, as far as the tables
\* devices, gateways and system_logs go
handle_telemetry(gateway_id, device_id, timestamp) ==
  /\ ingested < MaxIngest
  /\ ingested' = ingested + 1
  /\ devices' = update_device_last_seen_and_status(device_id, gateway_id, timestamp)
  /\ UNCHANGED <<clock, gateways, system_logs, det_pc, det_rows, ticks, last_tick>>

handle_access(gateway_id, device_id, timestamp) ==
  /\ ingested < MaxIngest
  /\ ingested' = ingested + 1
  /\ devices' = update_device_last_seen_and_status(device_id, gateway_id, timestamp)
  /\ UNCHANGED <<clock, gateways, system_logs, det_pc, det_rows, ticks, last_tick>>

DeviceStatusWords == {"alive", "error", "moving"}
normalize_device_status(status) ==
  IF status \in {"on", "online", "locked", "unlocked", "opened", "closed", "active",
                 "ready", "alive"} THEN "online"
  ELSE IF status \in {"off", "offline", "error", "disconnected"} THEN "offline"
  ELSE "online"

\* MQTTService.handle_device_status
handle_device_status(gateway_id, device_id, status, timestamp) ==
  /\ ingested < MaxIngest
  /\ ingested' = ingested + 1
  /\ IF Row(gateway_id, device_id) \in DeviceRows
     THEN /\ devices' = [devices EXCEPT ![Row(gateway_id, device_id)] =
                           [status |-> normalize_device_status(status),
                            last_seen |-> timestamp]]
          /\ system_logs' = Append(system_logs,
                                   Log("device_status_change", gateway_id, device_id,
                                       normalize_device_status(status)))
     ELSE UNCHANGED <<devices, system_logs>>
  /\ UNCHANGED <<clock, gateways, det_pc, det_rows, ticks, last_tick>>

GatewayStatusWords == {"online", "offline"}
normalize_gateway_status(status) ==
  IF status \in {"online", "active", "connected"} THEN "online" ELSE "offline"

\* MQTTService.handle_gateway_status
handle_gateway_status(gateway_id, status, timestamp) ==
  /\ ingested < MaxIngest
  /\ ingested' = ingested + 1
  /\ gateways' = [gateways EXCEPT ![gateway_id] =
                    [status |-> normalize_gateway_status(status), last_seen |-> timestamp]]
  /\ UNCHANGED <<clock, devices, system_logs, det_pc, det_rows, ticks, last_tick>>

\* WHERE status = 'online' AND (last_seen IS NULL OR last_seen < cutoff)
Stale(row, timeout) ==
  /\ row.status = "online"
  /\ (row.last_seen = NoTime \/ row.last_seen < clock - timeout)

\* check_offline_gateways: the UPDATE of gateways and one gateway_offline log per
\* returned gateway
check_offline_gateways_mark ==
  /\ det_pc = "idle"
  /\ ticks < MaxTicks
  /\ ticks' = ticks + 1
  /\ LET offline_gateways == {g \in GatewayIds : Stale(gateways[g], gateway_timeout)}
     IN /\ gateways' = [g \in GatewayIds |->
                          IF g \in offline_gateways
                          THEN [gateways[g] EXCEPT !.status = "offline"]
                          ELSE gateways[g]]
        /\ system_logs' = AppendAll(system_logs,
                                    {Log("gateway_offline", g, Null, "periodic_check") :
                                       g \in offline_gateways})
        /\ det_rows' = offline_gateways
        /\ det_pc' = IF offline_gateways = {} THEN "devices" ELSE "cascade"
        /\ last_tick' = [NoTick EXCEPT !.marked = offline_gateways,
                                        !.log_start = Len(system_logs)]
  /\ UNCHANGED <<clock, devices, ingested>>

\* the rows INSERT ... SELECT ... FROM devices d WHERE d.device_id = %s inserts for one
\* cascaded device: one per row of devices with that device_id
CascadeLogs(device_id) ==
  [n \in 1..Cardinality({r \in DeviceRows : r.device_id = device_id}) |->
     Log("device_offline", Null, device_id, "gateway_offline")]

RECURSIVE CascadeAll(_, _)
CascadeAll(logs, cascaded_devices) ==
  IF cascaded_devices = {} THEN logs
  ELSE LET r == CHOOSE y \in cascaded_devices : TRUE
       IN CascadeAll(logs \o CascadeLogs(r.device_id), cascaded_devices \ {r})

\* check_offline_gateways: the cascade UPDATE of devices and its logs
check_offline_gateways_cascade ==
  /\ det_pc = "cascade"
  /\ LET cascaded_devices == {r \in DeviceRows :
                                r.gateway_id \in det_rows /\ devices[r].status # "offline"}
     IN /\ devices' = [r \in DeviceRows |->
                         IF r \in cascaded_devices
                         THEN [devices[r] EXCEPT !.status = "offline"]
                         ELSE devices[r]]
        /\ system_logs' = CascadeAll(system_logs, cascaded_devices)
        /\ last_tick' = [last_tick EXCEPT
                           !.cascaded = cascaded_devices,
                           !.not_offline = {r \in DeviceRows :
                                              /\ r.gateway_id \in det_rows
                                              /\ devices'[r].status # "offline"}]
  /\ det_pc' = "devices"
  /\ det_rows' = {}
  /\ UNCHANGED <<clock, gateways, ingested, ticks>>

\* check_offline_devices: the UPDATE of devices and one device_offline log per returned
\* device; then the loop sleeps
check_offline_devices ==
  /\ det_pc = "devices"
  /\ LET offline_devices == {r \in DeviceRows : Stale(devices[r], device_timeout)}
     IN /\ devices' = [r \in DeviceRows |->
                         IF r \in offline_devices
                         THEN [devices[r] EXCEPT !.status = "offline"]
                         ELSE devices[r]]
        /\ system_logs' = AppendAll(system_logs,
                                    {Log("device_offline", r.gateway_id, r.device_id,
                                         "periodic_check") : r \in offline_devices})
        /\ last_tick' = [last_tick EXCEPT
                           !.stale = {r \in DeviceRows :
                                        /\ devices[r].status = "online"
                                        /\ devices[r].last_seen < clock - device_timeout},
                           !.timed_out = offline_devices,
                           !.stale_left = {r \in offline_devices :
                                             devices'[r].status # "offline"}]
  /\ det_pc' = "idle"
  /\ UNCHANGED <<clock, gateways, det_rows, ingested, ticks>>

ClockTick ==
  /\ clock < MaxClock
  /\ clock' = clock + 1
  /\ UNCHANGED <<gateways, devices, system_logs, det_pc, det_rows, ingested, ticks,
                 last_tick>>

(***************************************************************************)
(* Credential sync: the cloud endpoint GET /api/sync/database/{gateway_id} *)
(* (Server_Python/api/routes/sync.py) and the gateway applying what it     *)
(* answers (Gateway/src/sync_manager.py, Gateway/src/database.py).         *)
(***************************************************************************)
NoVersion == -1

PasswordIds == {"pw_guest", "pw_owner"}
CardUids == {"a1b2c3d4"}
SyncDeviceIds == {"keypad_01"}
Kinds == {"devices", "passwords", "rfid_cards"}

HashOf(password_id) == IF password_id = "pw_owner" THEN "h1" ELSE "h2"

PasswordDicts ==
  {[k \in K |-> [hash |-> HashOf(k), active |-> a[k], last_used |-> NoTime]] :
     K \in SUBSET PasswordIds, a \in [PasswordIds -> BOOLEAN]}
CardDicts == {[k \in K |-> [active |-> TRUE, last_used |-> NoTime]] : K \in SUBSET CardUids}
DeviceDicts == {[k \in K |-> [status |-> "online"]] : K \in SUBSET SyncDeviceIds}
Snapshots == [passwords : PasswordDicts, rfid_cards : CardDicts, devices : DeviceDicts]
\* the server's rows: any passwords; the card and the device registered or both removed
ServerRows ==
  {d \in Snapshots : (d.rfid_cards = EmptyDict) <=> (d.devices = EmptyDict)}
\* the gateway's store before the round: some active passwords, its card and its device
Stores ==
  {d \in Snapshots :
     /\ DOMAIN d.rfid_cards = CardUids
     /\ DOMAIN d.devices = SyncDeviceIds
     /\ \A k \in DOMAIN d.passwords : d.passwords[k].active}

NoDatabase == [passwords |-> EmptyDict, rfid_cards |-> EmptyDict, devices |-> EmptyDict]
NoChanges == [keys |-> {}, database |-> NoDatabase]
NoResponse ==
  [pending |-> FALSE, header |-> NoVersion, version |-> 0, timestamp |-> 0,
   needs_update |-> FALSE, has_database |-> FALSE, database |-> NoDatabase]
NoRound ==
  [done |-> FALSE, header |-> NoVersion, served |-> 0, needs_update |-> FALSE,
   has_database |-> FALSE, database |-> NoDatabase, before |-> NoDatabase]

\* json.dumps(data, sort_keys=True): the entries in key order, each by its fields
CredentialCode(d, k) ==
  IF k \in DOMAIN d
  THEN 1 + (IF d[k].active THEN 1 ELSE 0) + 2 * (d[k].last_used + 1)
  ELSE 0
DeviceCode(d, k) ==
  IF k \in DOMAIN d THEN (IF d[k].status = "online" THEN 1 ELSE 2) ELSE 0
json_dumps(data) ==
  << DeviceCode(data.devices, "keypad_01"),
     CredentialCode(data.passwords, "pw_guest"),
     CredentialCode(data.passwords, "pw_owner"),
     CredentialCode(data.rfid_cards, "a1b2c3d4") >>

\* hashlib.sha256(...).hexdigest()[:16]: a digest in a finite space, so two different
\* snapshots can carry the same version
RECURSIVE sha256_16(_)
sha256_16(bytes) ==
  IF bytes = <<>> THEN 0
  ELSE (3 * sha256_16(SubSeq(bytes, 1, Len(bytes) - 1)) + bytes[Len(bytes)]) % VersionSpace

calculate_db_version(data) == sha256_16(json_dumps(data))

\* the body sent whatever the version the gateway reports
sync_needs_update_always(current_version, new_version) == TRUE

sync_needs_update(current_version, new_version) == current_version # new_version

get_database_for_gateway(current_version) ==
  LET database_content == srv_db
      new_version == calculate_db_version(database_content)
      needs_update == sync_needs_update(current_version, new_version)
  IN [pending |-> TRUE, header |-> current_version, version |-> new_version,
      timestamp |-> sync_clock, needs_update |-> needs_update,
      has_database |-> needs_update,
      database |-> IF needs_update THEN database_content ELSE NoDatabase]

\* the sync client hands the body of an answer to the credential store as its changes
SyncPayload(response) ==
  [changes |-> IF response.has_database
               THEN [keys |-> Kinds, database |-> response.database]
               ELSE NoChanges,
   timestamp |-> response.timestamp]

Merge(old, new) ==
  [k \in (DOMAIN old) \cup (DOMAIN new) |-> IF k \in DOMAIN new THEN new[k] ELSE old[k]]

apply_sync_changes(store, changes) ==
  [devices |-> IF "devices" \in changes.keys
               THEN Merge(store.devices, changes.database.devices) ELSE store.devices,
   passwords |-> IF "passwords" \in changes.keys
                 THEN Merge(store.passwords, changes.database.passwords)
                 ELSE store.passwords,
   rfid_cards |-> IF "rfid_cards" \in changes.keys
                  THEN Merge(store.rfid_cards, changes.database.rfid_cards)
                  ELSE store.rfid_cards]

SyncInit ==
  /\ srv_db \in ServerRows
  /\ gw_db \in Stores
  /\ sync_clock = 0
  /\ sync_resp = NoResponse
  /\ sync_rounds = 0
  /\ last_sync_server = NoTime
  /\ sync_last = NoRound

SyncQuiet ==
  /\ srv_db = NoDatabase
  /\ gw_db = NoDatabase
  /\ sync_clock = 0
  /\ sync_resp = NoResponse
  /\ sync_rounds = 0
  /\ last_sync_server = NoTime
  /\ sync_last = NoRound

SyncRequest(current_version) ==
  /\ ~sync_resp.pending
  /\ sync_rounds < MaxRounds
  /\ sync_rounds' = sync_rounds + 1
  /\ sync_resp' = get_database_for_gateway(current_version)
  /\ sync_last' = NoRound
  /\ UNCHANGED <<srv_db, gw_db, sync_clock, last_sync_server>>

handle_sync_response ==
  /\ sync_resp.pending
  /\ LET payload == SyncPayload(sync_resp)
         changes == payload.changes
     IN IF changes.keys = {}
        THEN UNCHANGED <<gw_db, last_sync_server>>
        ELSE /\ gw_db' = apply_sync_changes(gw_db, changes)
             /\ last_sync_server' = payload.timestamp
  /\ sync_last' = [done |-> TRUE, header |-> sync_resp.header,
                   served |-> sync_resp.version,
                   needs_update |-> sync_resp.needs_update,
                   has_database |-> sync_resp.has_database,
                   database |-> sync_resp.database, before |-> gw_db]
  /\ sync_resp' = NoResponse
  /\ UNCHANGED <<srv_db, sync_clock, sync_rounds>>

\* Gateway/src Database.authenticate_passkey: the first active password with
\* the hash gets last_used = now
SyncAuthenticatePasskey(password_id) ==
  /\ password_id \in DOMAIN gw_db.passwords
  /\ gw_db.passwords[password_id].active
  /\ gw_db.passwords[password_id].last_used # sync_clock
  /\ gw_db' = [gw_db EXCEPT !.passwords[password_id].last_used = sync_clock]
  /\ sync_last' = NoRound
  /\ UNCHANGED <<srv_db, sync_clock, sync_resp, sync_rounds, last_sync_server>>

\* MQTTService.update_password_last_used, from an access message stamped t
update_password_last_used(password_id, t) ==
  /\ password_id \in DOMAIN srv_db.passwords
  /\ srv_db.passwords[password_id].last_used # t
  /\ srv_db' = [srv_db EXCEPT !.passwords[password_id].last_used = t]
  /\ UNCHANGED <<gw_db, sync_clock, sync_resp, sync_rounds, last_sync_server, sync_last>>

SyncClockTick ==
  /\ sync_clock < MaxSyncTime
  /\ sync_clock' = sync_clock + 1
  /\ UNCHANGED <<srv_db, gw_db, sync_resp, sync_rounds, last_sync_server, sync_last>>

(***************************************************************************)
(* LoRa frame codec: crc32 and Gateway.parse_lora_message of               *)
(* Physical_Devices/Gateway/vps_main.py, LoRaHandler._parse_message of     *)
(* Gateway/src/lora_handler.py.  A byte is 0..255; a 32-bit register is    *)
(* its four bytes, most significant first.                                 *)
(***************************************************************************)
Magic == <<0, 2, 23>>
NoField == -1

Pow2(n) == IF n = 0 THEN 1 ELSE IF n = 1 THEN 2 ELSE IF n = 2 THEN 4 ELSE IF n = 3 THEN 8
           ELSE IF n = 4 THEN 16 ELSE IF n = 5 THEN 32 ELSE IF n = 6 THEN 64 ELSE 128

XorBit(a, b, k) == Pow2(k) * (((a \div Pow2(k)) + (b \div Pow2(k))) % 2)
XorByte(a, b) ==
  XorBit(a, b, 0) + XorBit(a, b, 1) + XorBit(a, b, 2) + XorBit(a, b, 3)
  + XorBit(a, b, 4) + XorBit(a, b, 5) + XorBit(a, b, 6) + XorBit(a, b, 7)

\* poly = 0x04C11DB7
Poly == <<4, 193, 29, 183>>
\* init = xor_out = 0xFFFFFFFF
AllOnes == <<255, 255, 255, 255>>

XorWord(a, b) ==
  <<XorByte(a[1], b[1]), XorByte(a[2], b[2]), XorByte(a[3], b[3]), XorByte(a[4], b[4])>>
\* (crc << 1) & 0xFFFFFFFF
ShiftLeft(crc) ==
  << (2 * crc[1] + crc[2] \div 128) % 256, (2 * crc[2] + crc[3] \div 128) % 256,
     (2 * crc[3] + crc[4] \div 128) % 256, (2 * crc[4]) % 256 >>
\* crc ^= (b << 24)
XorTopByte(crc, b) == <<XorByte(crc[1], b), crc[2], crc[3], crc[4]>>

\* one turn of the inner loop: shift, and xor poly when the top bit was set
Words == [1..4 -> 0..255]
ShiftStep ==
  [crc \in Words |->
     IF crc[1] >= 128 THEN XorWord(ShiftLeft(crc), Poly) ELSE ShiftLeft(crc)]
\* one turn of the outer loop: for _ in range(8)
CrcByte ==
  [crc \in Words, b \in 0..255 |->
     ShiftStep[ShiftStep[ShiftStep[ShiftStep[ShiftStep[ShiftStep[ShiftStep[ShiftStep[
       XorTopByte(crc, b)]]]]]]]]]

RECURSIVE CrcBytes(_, _)
CrcBytes(crc, data) ==
  IF data = <<>> THEN crc
  ELSE CrcBytes(CrcByte[crc, Head(data)], Tail(data))

crc32(data) == XorWord(CrcBytes(AllOnes, data), AllOnes)

\* struct.pack('<I', crc) and struct.unpack('<I', bytes) on a register
pack_I_word(crc) == <<crc[4], crc[3], crc[2], crc[1]>>
unpack_I_word(b) == <<b[4], b[3], b[2], b[1]>>
\* struct.pack / unpack of '<H' and '<I' on numbers
pack_H(n) == <<n % 256, (n \div 256) % 256>>
unpack_H(b) == b[1] + 256 * b[2]
pack_I(n) == <<n % 256, (n \div 256) % 256, (n \div 65536) % 256, (n \div 16777216) % 256>>
unpack_I(b) == b[1] + 256 * b[2] + 65536 * b[3] + 16777216 * b[4]

\* ''.join(f'{b:02x}' for b in data), bytes.hex(): two hex digits a byte
Hex(data) ==
  [i \in 1..(2 * Len(data)) |->
     IF i % 2 = 1 THEN data[(i + 1) \div 2] \div 16 ELSE data[i \div 2] % 16]

\* UTF-8 of the payload bytes used here: a byte below 0x80 is a character by itself,
\* a byte from 0xF8 up is valid nowhere
Utf8Valid(b) == b < 128
RECURSIVE Utf8Ignore(_)
Utf8Ignore(data) ==
  IF data = <<>> THEN <<>>
  ELSE IF Utf8Valid(Head(data)) THEN <<Head(data)>> \o Utf8Ignore(Tail(data))
       ELSE Utf8Ignore(Tail(data))

MESSAGE_TYPES_PD(n) == IF n = 1 THEN "rfid_scan" ELSE IF n = 6 THEN "gate_status" ELSE "unknown"
DEVICE_TYPES_PD(n) == IF n = 1 THEN "rfid_gate_01" ELSE "unknown"
MESSAGE_TYPES(n) ==
  IF n = 1 THEN "rfid_scan" ELSE IF n = 2 THEN "temp_update" ELSE IF n = 3 THEN "motion_detect"
  ELSE IF n = 4 THEN "relay_control" ELSE IF n = 5 THEN "passkey"
  ELSE IF n = 6 THEN "gate_status" ELSE IF n = 7 THEN "system_status"
  ELSE IF n = 8 THEN "door_status" ELSE IF n = 128 THEN "ack"
  ELSE IF n = 255 THEN "error" ELSE "unknown"
DEVICE_TYPES(n) ==
  IF n = 1 THEN "rfid_gate" ELSE IF n = 2 THEN "relay_fan" ELSE IF n = 3 THEN "temp_sensor"
  ELSE IF n = 4 THEN "gateway" ELSE IF n = 5 THEN "passkey"
  ELSE IF n = 7 THEN "motion_outdoor" ELSE IF n = 8 THEN "motion_indoor" ELSE "unknown"

NoMessage ==
  [ok |-> FALSE, version |-> NoField, msg_type |-> "unknown", msg_type_n |-> NoField,
   device_type |-> "unknown", device_type_raw |-> NoField, flags |-> NoField,
   seq |-> NoField, timestamp |-> NoField, payload |-> [kind |-> "raw", value |-> <<>>],
   crc |-> AllOnes]

\* the frame as the device sends it (wire format of the frame codec)
encode(F) ==
  LET body == << (16 * F.msg_type + F.version) % 256,
                 (16 * F.flags + F.device_type) % 256 >>
              \o pack_H(F.seq) \o pack_I(F.timestamp)
              \o << Len(F.payload) >> \o F.payload
  IN Magic \o body \o pack_I_word(crc32(body))

parse_lora_message(data) ==
  IF Len(data) < 3 \/ SubSeq(data, 1, 3) # Magic THEN NoMessage
  ELSE LET raw == SubSeq(data, 4, Len(data))
       IN IF Len(raw) < 9 THEN NoMessage
          ELSE LET header_byte0 == raw[1]
                   version == header_byte0 % 16
                   msg_type_n == (header_byte0 \div 16) % 16
                   device_byte1 == raw[2]
                   device_type_n == device_byte1 % 16
                   uid_len == raw[9]
                   expected_len == 9 + uid_len + 4
               IN IF Len(raw) < expected_len THEN NoMessage
                  ELSE LET payload_data == SubSeq(raw, 10, 9 + uid_len)
                           crc_received ==
                             unpack_I_word(SubSeq(raw, 10 + uid_len, 13 + uid_len))
                           crc_data == SubSeq(raw, 1, 9 + uid_len)
                           auth_crc == crc32(crc_data)
                       IN IF auth_crc # crc_received THEN NoMessage
                          ELSE IF msg_type_n = 6
                                  /\ \E i \in 1..Len(payload_data) :
                                       ~Utf8Valid(payload_data[i])
                          THEN NoMessage
                          ELSE [ok |-> TRUE, version |-> version,
                                msg_type |-> MESSAGE_TYPES_PD(msg_type_n),
                                msg_type_n |-> msg_type_n,
                                device_type |-> DEVICE_TYPES_PD(device_type_n),
                                device_type_raw |-> device_type_n,
                                flags |-> NoField,
                                seq |-> unpack_H(SubSeq(raw, 3, 4)),
                                timestamp |-> unpack_I(SubSeq(raw, 5, 8)),
                                payload |->
                                  IF msg_type_n = 1
                                  THEN [kind |-> "uid", value |-> Hex(payload_data)]
                                  ELSE IF msg_type_n = 6
                                  THEN [kind |-> "status", value |-> payload_data]
                                  ELSE [kind |-> "raw", value |-> Hex(payload_data)],
                                crc |-> crc_received]

_parse_payload(msg_type, payload_data) ==
  IF msg_type = 1 THEN [kind |-> "uid", value |-> Hex(payload_data)]
  ELSE IF msg_type = 6 \/ msg_type = 8
  THEN [kind |-> "status", value |-> Utf8Ignore(payload_data)]
  ELSE [kind |-> "raw", value |-> Hex(payload_data)]

_parse_message(data) ==
  IF Len(data) < 12 \/ SubSeq(data, 1, 3) # Magic THEN NoMessage
  ELSE LET raw == SubSeq(data, 4, Len(data))
           header_byte0 == raw[1]
           version == header_byte0 % 16
           msg_type_n == (header_byte0 \div 16) % 16
           device_byte1 == raw[2]
           device_type_n == device_byte1 % 16
           flags == (device_byte1 \div 16) % 16
           uid_len == raw[9]
           expected_len == 9 + uid_len + 4
       IN IF Len(raw) < expected_len THEN NoMessage
          ELSE LET payload_data == SubSeq(raw, 10, 9 + uid_len)
                   crc_received == unpack_I_word(SubSeq(raw, 10 + uid_len, 13 + uid_len))
                   crc_data == SubSeq(raw, 1, 9 + uid_len)
                   calculated_crc == crc32(crc_data)
               IN IF calculated_crc # crc_received THEN NoMessage
                  ELSE [ok |-> TRUE, version |-> version,
                        msg_type |-> MESSAGE_TYPES(msg_type_n),
                        msg_type_n |-> msg_type_n,
                        device_type |-> DEVICE_TYPES(device_type_n),
                        device_type_raw |-> device_type_n,
                        flags |-> flags,
                        seq |-> unpack_H(SubSeq(raw, 3, 4)),
                        timestamp |-> unpack_I(SubSeq(raw, 5, 8)),
                        payload |-> _parse_payload(msg_type_n, payload_data),
                        crc |-> crc_received]

\* well-formed frames: every listed message type, with and without flags, a sequence
\* number of two bytes, 'A' and 0xFA as payload bytes
FrameTypes == {1, 2, 3, 4, 5, 6, 7, 8, 128, 255}
PayloadBytes == {65, 250}
Payloads255 == UNION {[1..n -> PayloadBytes] : n \in 0..MaxPayloadLen}
Frames ==
  [version : {1}, msg_type : FrameTypes, device_type : {1}, flags : {0, 5},
   seq : {0, 258}, timestamp : {1040139329}, payload : Payloads255]
NoFrame ==
  [version |-> 1, msg_type |-> 1, device_type |-> 1, flags |-> 0, seq |-> 0,
   timestamp |-> 0, payload |-> <<>>]

FrameInit ==
  /\ frame \in Frames
  /\ wire = <<>>
  /\ flipped = NoField
  /\ frame_pc = "new"
  /\ decoder = "none"
  /\ decoded = NoMessage

FrameQuiet ==
  /\ frame = NoFrame
  /\ wire = <<>>
  /\ flipped = NoField
  /\ frame_pc = "new"
  /\ decoder = "none"
  /\ decoded = NoMessage

Send ==
  /\ frame_pc = "new"
  /\ wire' = encode(frame)
  /\ frame_pc' = "encoded"
  /\ UNCHANGED <<frame, flipped, decoder, decoded>>

\* the link flips bit `bit` of byte `at` (0-based offsets 3..12+N-1 of the frame)
FlipBit(at, bit) ==
  /\ frame_pc = "encoded"
  /\ flipped = NoField
  /\ at \in 3..(12 + Len(frame.payload) - 1)
  /\ wire' = [wire EXCEPT ![at + 1] =
                IF (@ \div Pow2(bit)) % 2 = 1 THEN @ - Pow2(bit) ELSE @ + Pow2(bit)]
  /\ flipped' = 8 * at + bit
  /\ UNCHANGED <<frame, frame_pc, decoder, decoded>>

ReceivePD ==
  /\ frame_pc = "encoded"
  /\ decoded' = parse_lora_message(wire)
  /\ decoder' = "parse_lora_message"
  /\ frame_pc' = "decoded"
  /\ UNCHANGED <<frame, wire, flipped>>

ReceiveHandler ==
  /\ frame_pc = "encoded"
  /\ decoded' = _parse_message(wire)
  /\ decoder' = "_parse_message"
  /\ frame_pc' = "decoded"
  /\ UNCHANGED <<frame, wire, flipped>>

(***************************************************************************)
(* Database._save_json and Database._load_json of                          *)
(* Physical_Devices/Gateway/vps_main.py, with the process stopping at any  *)
(* point.  The contents of a store are named by a number; the JSON text of *)
(* contents v is DocChunks chunks, written one after the other.            *)
(***************************************************************************)
NoData == -1

NoFile == [exists |-> FALSE, text |-> <<>>]
\* json.dump(data, f): the text of the data, chunk by chunk
json_dump(data) == [i \in 1..DocChunks |-> data]
\* json.load(f): the data of a complete text; anything shorter does not parse
json_load_ok(file) == file.exists /\ Len(file.text) = DocChunks
json_load(file) == file.text[1]

\* Database._load_json: the primary file, or {} when it cannot be read
_load_json(primary, backup) ==
  IF json_load_ok(primary) THEN json_load(primary) ELSE NoData

FileInit ==
  /\ file_primary = [exists |-> TRUE, text |-> json_dump(0)]
  /\ file_backup = NoFile
  /\ mem_data = 0
  /\ save_pc = "idle"
  /\ saves = 0
  /\ save_last = [prev |-> 0, new |-> 0]
  /\ load_last = [done |-> FALSE, data |-> NoData]

\* the store is modified and _save_json is entered: the primary becomes the backup
SaveReplace ==
  /\ save_pc = "idle"
  /\ saves < MaxSaves
  /\ saves' = saves + 1
  /\ mem_data' = saves + 1
  /\ save_last' = [prev |-> _load_json(file_primary, file_backup), new |-> saves + 1]
  /\ IF file_primary.exists
     THEN file_backup' = file_primary /\ file_primary' = NoFile
     ELSE UNCHANGED <<file_primary, file_backup>>
  /\ save_pc' = "replaced"
  /\ load_last' = [done |-> FALSE, data |-> NoData]

\* open(file_path, 'w'): the primary exists again, empty
SaveOpen ==
  /\ save_pc = "replaced"
  /\ file_primary' = [exists |-> TRUE, text |-> <<>>]
  /\ save_pc' = "writing"
  /\ UNCHANGED <<file_backup, mem_data, saves, save_last, load_last>>

\* json.dump writes the next chunk; the file is closed after the last one
SaveWrite ==
  /\ save_pc = "writing"
  /\ LET text == json_dump(mem_data)
         n == Len(file_primary.text) + 1
     IN /\ file_primary' = [file_primary EXCEPT !.text = SubSeq(text, 1, n)]
        /\ save_pc' = IF n = DocChunks THEN "idle" ELSE "writing"
  /\ UNCHANGED <<file_backup, mem_data, saves, save_last, load_last>>

\* the write raises: the backup is put back in place of the primary
SaveFails ==
  /\ save_pc = "writing"
  /\ IF file_backup.exists
     THEN file_primary' = file_backup /\ file_backup' = NoFile
     ELSE UNCHANGED <<file_primary, file_backup>>
  /\ save_pc' = "idle"
  /\ UNCHANGED <<mem_data, saves, save_last, load_last>>

\* the process stops, wherever it stands
Crash ==
  /\ save_pc # "down"
  /\ save_pc' = "down"
  /\ UNCHANGED <<file_primary, file_backup, mem_data, saves, save_last, load_last>>

\* the process starts again: Database.load_database
load_database ==
  /\ save_pc = "down"
  /\ mem_data' = _load_json(file_primary, file_backup)
  /\ load_last' = [done |-> TRUE, data |-> _load_json(file_primary, file_backup)]
  /\ save_pc' = "idle"
  /\ UNCHANGED <<file_primary, file_backup, saves, save_last>>

(***************************************************************************)
(* RemoteControlManager of Physical_Devices/Gateway/vps_main.py: commands  *)
(* from the cloud, acknowledgements from the devices, and the sweep of     *)
(* cleanup_loop.                                                           *)
(***************************************************************************)
CommandIds == {"cmd_a", "cmd_b"}
\* a keypad the store knows and that is online, and a device it does not know
CommandDevices == {"keypad_01", "fan_99"}
DeviceKnown(device_id) == device_id = "keypad_01"

CmdInit ==
  /\ cmd_now = 0
  /\ pending_commands = EmptyDict
  /\ next_sweep = cleanup_interval
  /\ cmd_responses = {}
  /\ cmd_local_out = {}
  /\ cmd_forwarded = {}
  /\ received = EmptyDict
  /\ acked = EmptyDict
  /\ expired = {}

send_command_response(device_id, command_id, success, status) ==
  cmd_responses \cup {[device_id |-> device_id, command_id |-> command_id,
                       success |-> success, status |-> status]}

process_remote_command(device_id, command_id) ==
  /\ command_id \notin DOMAIN received
  /\ \A r \in cmd_responses : r.command_id # command_id
  /\ IF ~DeviceKnown(device_id)
     THEN /\ cmd_responses' =
               send_command_response(device_id, command_id, FALSE, "device_not_found")
          /\ UNCHANGED <<pending_commands, cmd_local_out, cmd_forwarded, received>>
     ELSE /\ pending_commands' =
               Put(pending_commands, command_id,
                   [device_id |-> device_id, timestamp |-> cmd_now, status |-> "pending"])
          \* handle_keypad_command, then log_remote_access
          /\ cmd_local_out' = cmd_local_out \cup {command_id}
          /\ cmd_forwarded' = cmd_forwarded \cup {command_id}
          /\ received' = Put(received, command_id, cmd_now)
          /\ UNCHANGED cmd_responses
  /\ UNCHANGED <<cmd_now, next_sweep, acked, expired>>

\* Gateway.handle_status for a status message carrying command_id
handle_status(device_id, command_id) ==
  /\ command_id \in cmd_local_out
  /\ command_id \notin DOMAIN acked
  /\ cmd_responses' = send_command_response(device_id, command_id, TRUE, "completed")
  /\ acked' = Put(acked, command_id, cmd_now)
  /\ UNCHANGED <<cmd_now, pending_commands, next_sweep, cmd_local_out, cmd_forwarded, received,
                 expired>>

\* cleanup_loop wakes up and calls RemoteControlManager.cleanup_old_commands
cleanup_old_commands ==
  /\ cmd_now = next_sweep
  /\ LET out == {cmd_id \in DOMAIN pending_commands :
                   cmd_now - pending_commands[cmd_id].timestamp > command_timeout}
     IN /\ pending_commands' = [c \in (DOMAIN pending_commands) \ out |-> pending_commands[c]]
        /\ expired' = expired \cup out
  /\ next_sweep' = next_sweep + cleanup_interval
  /\ UNCHANGED <<cmd_now, cmd_responses, cmd_local_out, cmd_forwarded, received, acked>>

CmdTick ==
  /\ cmd_now < MaxCmdTime
  /\ cmd_now < next_sweep
  /\ cmd_now' = cmd_now + 1
  /\ UNCHANGED <<pending_commands, next_sweep, cmd_responses, cmd_local_out, cmd_forwarded,
                 received, acked, expired>>

(***************************************************************************)
(* Cloud command endpoint (Server_Python/api/routes/commands.py) and what   *)
(* the MQTT ingest does with the acknowledgement of a command               *)
(***************************************************************************)
\* a row of command_logs
CommandLog(command_id, gateway_id, device_id, status, time, completed_at) ==
  [command_id |-> command_id, gateway_id |-> gateway_id, device_id |-> device_id,
   status |-> status, time |-> time, completed_at |-> completed_at]

Event(op, command_id) == [op |-> op, command_id |-> command_id]

LogInit ==
  /\ command_logs = <<>>
  /\ cloud_commands = <<>>
  /\ command_events = <<>>
  /\ command_replies = <<>>
  /\ ack_ingested = {}

\* str(uuid.uuid4()): an id no earlier request has
uuid4 == Len(command_replies) + 1

\* POST /api/commands/{gateway_id}/{device_id}. owned: check_device_ownership passes;
\* inserted: db.query does not raise; success: mqtt_service.publish returns True
send_command(gateway_id, device_id, owned, inserted, success) ==
  /\ Len(command_replies) < MaxCommands
  /\ LET command_id == uuid4
         row == CommandLog(command_id, gateway_id, device_id, "sent", clock, NoTime)
     IN IF ~owned
        THEN /\ command_replies' = Append(command_replies, 403)
             /\ UNCHANGED <<command_logs, cloud_commands, command_events>>
        ELSE IF ~inserted
        THEN /\ command_replies' = Append(command_replies, 500)
             /\ UNCHANGED <<command_logs, cloud_commands, command_events>>
        ELSE /\ command_logs' = Append(command_logs, row)
             /\ IF success
                THEN /\ cloud_commands' =
                          Append(cloud_commands,
                                 [gateway_id |-> gateway_id, device_id |-> device_id,
                                  command_id |-> command_id])
                     /\ command_events' = command_events \o
                          <<Event("insert", command_id), Event("publish", command_id)>>
                     /\ command_replies' = Append(command_replies, 200)
                ELSE /\ command_events' = Append(command_events, Event("insert", command_id))
                     /\ command_replies' = Append(command_replies, 503)
                     /\ UNCHANGED cloud_commands
  /\ UNCHANGED ack_ingested

\* the acknowledgements a gateway sends for a command it was given: the command
\* response on gateway/command/response/{device_id} and the device's status message,
\* forwarded under the gateway's id
AckRoutes(m) ==
  {[gateway_id |-> "command", msg_type |-> "response", device_or_entity |-> m.device_id],
   [gateway_id |-> m.gateway_id, msg_type |-> "status", device_or_entity |-> m.device_id]}

\* MQTTService.on_message given the acknowledgement of command m on route r
on_message(r, m, timestamp) ==
  /\ m.command_id \notin ack_ingested
  /\ ack_ingested' = ack_ingested \cup {m.command_id}
  /\ IF r.msg_type = "status" /\ r.device_or_entity # "gateway"
     THEN handle_device_status(r.gateway_id, r.device_or_entity, "completed", timestamp)
     ELSE UNCHANGED cloudVars    \* Unhandled message type
  /\ UNCHANGED <<command_logs, cloud_commands, command_events, command_replies>>

(***************************************************************************)
(* Gateway heartbeat (heartbeat_loop of the gateway programs) against the   *)
(* cloud's ingest and offline detector. Time is counted in steps of 10 s;   *)
(* the cloud link stays up and every publish is delivered at once.          *)
(***************************************************************************)
HbBuilds == {"PD", "User1_vps_main", "User1_gateway"}

\* CONFIG of each program: heartbeat_interval, topics.vps_gateway_status, and whether
\* heartbeat_loop sleeps before its first publish
HeartbeatConfig(b) ==
  IF b = "PD"
  THEN [heartbeat_interval |-> heartbeat_interval_PD,
        vps_gateway_status |-> <<"gateway", "status", "Gateway1">>,
        sleep_first |-> TRUE]
  ELSE IF b = "User1_vps_main"
  THEN [heartbeat_interval |-> heartbeat_interval_User1,
        vps_gateway_status |-> <<"gateway", "Gateway1", "status", "gateway">>,
        sleep_first |-> FALSE]
  ELSE [heartbeat_interval |-> heartbeat_interval_gateway_Anh,
        vps_gateway_status |-> <<"gateway", "Gateway1", "status", "gateway">>,
        sleep_first |-> FALSE]

\* MQTTService.on_message: does a message on this topic reach
\* handle_gateway_status for gateway_id
RoutedToGatewayStatus(parts, gateway_id) ==
  /\ Len(parts) >= 3
  /\ parts[2] = gateway_id
  /\ parts[3] = "status"
  /\ Len(parts) > 3 /\ parts[4] = "gateway"

HbInitFor(b) ==
  /\ hb_build = b
  /\ hb_now = 0
  /\ hb_wake = IF HeartbeatConfig(b).sleep_first THEN HeartbeatConfig(b).heartbeat_interval
               ELSE 0
  /\ hb_row = [status |-> "online", last_seen |-> 0]
  /\ hb_check = 0
  /\ hb_beats = <<>>
  /\ hb_marked = {}

HbInit == \E b \in HbBuilds : HbInitFor(b)
HbQuiet == HbInitFor("PD")

\* one round of heartbeat_loop with the cloud link up: the retained status message is
\* published and MQTTService.on_message ingests it
heartbeat_loop ==
  /\ hb_now = hb_wake
  /\ hb_beats' = Append(hb_beats, hb_now)
  /\ hb_wake' = hb_now + HeartbeatConfig(hb_build).heartbeat_interval
  /\ hb_row' = IF RoutedToGatewayStatus(HeartbeatConfig(hb_build).vps_gateway_status,
                                        "Gateway1")
               THEN [status |-> normalize_gateway_status("online"), last_seen |-> hb_now]
               ELSE hb_row
  /\ UNCHANGED <<hb_build, hb_now, hb_check, hb_marked>>

\* one round of OfflineDetector._detection_loop, for the gateway's row
detection_loop ==
  /\ hb_now = hb_check
  /\ hb_check' = hb_now + check_interval
  /\ IF hb_row.status = "online" /\ hb_row.last_seen < hb_now - hb_gateway_timeout
     THEN /\ hb_row' = [hb_row EXCEPT !.status = "offline"]
          /\ hb_marked' = hb_marked \cup {hb_now}
     ELSE UNCHANGED <<hb_row, hb_marked>>
  /\ UNCHANGED <<hb_build, hb_now, hb_wake, hb_beats>>

HbTick ==
  /\ hb_now < MaxHbTime
  /\ hb_now < hb_wake
  /\ hb_now < hb_check
  /\ hb_now' = hb_now + 1
  /\ UNCHANGED <<hb_build, hb_wake, hb_row, hb_check, hb_beats, hb_marked>>

(***************************************************************************)
(* UI broadcasts: the queue the MQTT ingest fills, the pump                 *)
(* process_websocket_broadcasts and WebSocketManager                        *)
(* (Server_Python/api/services/mqtt_service.py, websocket_manager.py).      *)
(* The pump and the websocket endpoints are tasks of one event loop: they   *)
(* interleave at every await.                                               *)
(***************************************************************************)
Users == {"u1", "u2"}
Sockets == {"s1", "s2", "s3"}
\* the user_id of the token a socket was opened with
SocketUser(w) == IF w = "s3" THEN "u2" ELSE "u1"

NoIter ==
  [id |-> 0, user_id |-> "", size |-> 0, cur |-> "", todo |-> {}, disconnected |-> {},
   replaced |-> FALSE, live |-> {}]

WsInit ==
  /\ ws_broadcast_queue = <<>>
  /\ active_connections = EmptyDict
  /\ ws_pc = "idle"
  /\ ws_iter = NoIter
  /\ ws_puts = 0
  /\ ws_sent = {}
  /\ ws_done = {}

\* ws_broadcast_queue.put(...) of the ingest handlers
ws_queue_put(user_id) ==
  /\ ws_puts < MaxBroadcasts
  /\ Len(ws_broadcast_queue) < ws_queue_maxsize
  /\ ws_puts' = ws_puts + 1
  /\ ws_broadcast_queue' = Append(ws_broadcast_queue, [id |-> ws_puts + 1, user_id |-> user_id])
  /\ UNCHANGED <<active_connections, ws_pc, ws_iter, ws_sent, ws_done>>

\* WebSocketManager.connect. While a for-loop runs over the user's set the new member
\* lands in a slot the iterator has passed or in one it has yet to reach.
ws_connect(websocket, ahead) ==
  LET user_id == SocketUser(websocket)
  IN /\ websocket \notin Get(active_connections, user_id, {})
     /\ active_connections' =
          Put(active_connections, user_id, Get(active_connections, user_id, {}) \cup {websocket})
     /\ IF ws_pc = "sending" /\ ws_iter.user_id = user_id /\ ~ws_iter.replaced
           /\ user_id \in DOMAIN active_connections
        THEN ws_iter' = [ws_iter EXCEPT !.todo = IF ahead THEN @ \cup {websocket} ELSE @]
        ELSE /\ ahead
             /\ UNCHANGED ws_iter
     /\ UNCHANGED <<ws_broadcast_queue, ws_pc, ws_puts, ws_sent, ws_done>>

\* WebSocketManager.disconnect
ws_disconnect(websocket) ==
  LET user_id == SocketUser(websocket)
      left == Get(active_connections, user_id, {}) \ {websocket}
  IN /\ websocket \in Get(active_connections, user_id, {})
     /\ active_connections' =
          IF left = {} THEN Pop(active_connections, user_id)
          ELSE Put(active_connections, user_id, left)
     /\ IF ws_pc = "sending" /\ ws_iter.user_id = user_id
        THEN ws_iter' = [ws_iter EXCEPT !.todo = @ \ {websocket},
                                        !.live = @ \ {websocket},
                                        !.replaced = @ \/ left = {}]
        ELSE UNCHANGED ws_iter
     /\ UNCHANGED <<ws_broadcast_queue, ws_pc, ws_puts, ws_sent, ws_done>>

Ended(outcome) ==
  [id |-> ws_iter.id, user_id |-> ws_iter.user_id, live |-> ws_iter.live,
   disconnected |-> ws_iter.disconnected, outcome |-> outcome]

\* the set the for-loop iterates: the object the loop started on
IteratedSize ==
  IF ws_iter.replaced THEN 0 ELSE Cardinality(Get(active_connections, ws_iter.user_id, {}))

\* process_websocket_broadcasts: get_nowait, then broadcast_to_user up to its first
\* await, the send_json to the first socket of the user's set
pump_get ==
  /\ ws_pc = "idle"
  /\ ws_broadcast_queue # <<>>
  /\ LET msg == Head(ws_broadcast_queue)
         conns == Get(active_connections, msg.user_id, {})
     IN /\ ws_broadcast_queue' = Tail(ws_broadcast_queue)
        /\ IF msg.user_id \notin DOMAIN active_connections
           THEN /\ ws_done' = ws_done \cup
                     {[id |-> msg.id, user_id |-> msg.user_id, live |-> {},
                       disconnected |-> {}, outcome |-> "no_connections"]}
                /\ UNCHANGED <<ws_pc, ws_iter>>
           ELSE /\ ws_pc' = "sending"
                /\ \E websocket \in conns :
                     ws_iter' = [id |-> msg.id, user_id |-> msg.user_id,
                                 size |-> Cardinality(conns), cur |-> websocket,
                                 todo |-> conns \ {websocket},
                                 disconnected |-> {}, replaced |-> FALSE, live |-> conns]
                /\ UNCHANGED ws_done
  /\ UNCHANGED <<active_connections, ws_puts, ws_sent>>

\* the for-loop of broadcast_to_user from one await to the next: the pending
\* send_json returns (sent) or raises; then the iterator's next() raises RuntimeError
\* (set changed size during iteration) and the broadcast is abandoned, or it yields
\* the next socket, or the loop ends and the sockets whose send raised are removed
pump_send(sent) ==
  /\ ws_pc = "sending"
  /\ LET disconnected == IF sent THEN ws_iter.disconnected
                         ELSE ws_iter.disconnected \cup {ws_iter.cur}
     IN /\ ws_sent' = IF sent
                      THEN ws_sent \cup {[websocket |-> ws_iter.cur, id |-> ws_iter.id,
                                         user_id |-> ws_iter.user_id]}
                      ELSE ws_sent
        /\ IF IteratedSize # ws_iter.size
           THEN /\ ws_done' = ws_done \cup
                     {[Ended("RuntimeError") EXCEPT !.disconnected = disconnected]}
                /\ ws_pc' = "idle"
                /\ ws_iter' = NoIter
                /\ UNCHANGED active_connections
           ELSE IF ws_iter.todo # {}
           THEN /\ \E websocket \in ws_iter.todo :
                     ws_iter' = [ws_iter EXCEPT !.cur = websocket,
                                                !.todo = @ \ {websocket},
                                                !.disconnected = disconnected]
                /\ UNCHANGED <<active_connections, ws_pc, ws_done>>
           ELSE /\ LET left == active_connections[ws_iter.user_id] \ disconnected
                   IN active_connections' =
                        IF disconnected = {} THEN active_connections
                        ELSE IF left = {} THEN Pop(active_connections, ws_iter.user_id)
                        ELSE Put(active_connections, ws_iter.user_id, left)
                /\ ws_done' = ws_done \cup {[Ended("done") EXCEPT !.disconnected = disconnected]}
                /\ ws_pc' = "idle"
                /\ ws_iter' = NoIter
  /\ UNCHANGED <<ws_broadcast_queue, ws_puts>>

(***************************************************************************)
(* Nonce validation by concurrent threads: SecurityManager.validate_nonce   *)
(* (Physical_Devices/Gateway/vps_main.py) and                               *)
(* SecurityManager.verify_freshness (Gateway/src/security.py), statement by *)
(* statement                                                                *)
(***************************************************************************)
Threads == {"t1", "t2"}
ThreadNonces == {11, 12}
\* what earlier requests left in the cache
EarlierNonces == {<<>>, <<7>>, <<7, 8>>}

NvInitFor(b, n, used) ==
  /\ nv_build = b
  /\ nv_nonce = n
  /\ nv_pc = [t \in Threads |-> "idle"]
  /\ nv_lock = Null
  /\ nv_used = used
  /\ nv_ret = [t \in Threads |-> "pending"]
  /\ nv_overlap = FALSE

NvInit ==
  \E b \in {"PD", "GS"}, n \in [Threads -> ThreadNonces], used \in EarlierNonces :
    NvInitFor(b, n, used)
NvQuiet == NvInitFor("PD", [t \in Threads |-> 11], <<>>)

\* threading.Lock.acquire goes through when no thread holds the lock
lock_acquire_unguarded(lock) == TRUE
lock_acquire(lock) == lock = Null

\* the thread reaches the with-statement
nv_call(t) ==
  /\ nv_pc[t] = "idle"
  /\ nv_pc' = [nv_pc EXCEPT ![t] = "call"]
  /\ nv_overlap' = (nv_overlap \/ \E o \in Threads \ {t} : nv_pc[o] \in {"in", "insert"})
  /\ UNCHANGED <<nv_build, nv_nonce, nv_lock, nv_used, nv_ret>>

\* with self.lock:
nv_enter(t) ==
  /\ nv_pc[t] = "call"
  /\ lock_acquire(nv_lock)
  /\ nv_lock' = t
  /\ nv_pc' = [nv_pc EXCEPT ![t] = "in"]
  /\ UNCHANGED <<nv_build, nv_nonce, nv_used, nv_ret, nv_overlap>>

\* if nonce in self.used_nonces: return False
nv_check(t) ==
  /\ nv_pc[t] = "in"
  /\ IF InSeq(nv_used, nv_nonce[t])
     THEN /\ nv_ret' = [nv_ret EXCEPT ![t] = "False"]
          /\ nv_pc' = [nv_pc EXCEPT ![t] = "returned"]
          /\ nv_lock' = Null
     ELSE /\ nv_pc' = [nv_pc EXCEPT ![t] = "insert"]
          /\ UNCHANGED <<nv_ret, nv_lock>>
  /\ UNCHANGED <<nv_build, nv_nonce, nv_used, nv_overlap>>

\* self.used_nonces.append(nonce) on the deque of nonce_cache_size, or
\* self.recent_nonces.add(nonce); return True
nv_insert(t) ==
  /\ nv_pc[t] = "insert"
  /\ nv_used' = IF nv_build = "PD" THEN DequeAppend(nv_used, nv_nonce[t], nonce_cache_size)
                ELSE IF InSeq(nv_used, nv_nonce[t]) THEN nv_used
                ELSE Append(nv_used, nv_nonce[t])
  /\ nv_ret' = [nv_ret EXCEPT ![t] = "True"]
  /\ nv_pc' = [nv_pc EXCEPT ![t] = "returned"]
  /\ nv_lock' = Null
  /\ UNCHANGED <<nv_build, nv_nonce, nv_overlap>>

(***************************************************************************)
(* The command path from the cloud endpoint to the device: the message      *)
(* send_command publishes, the gateway's subscription and                   *)
(* Gateway.on_vps_message (Physical_Devices/Gateway/vps_main.py)            *)
(***************************************************************************)
PathInit == cmd_routed = {}

\* the topic and the payload send_command publishes for the message m
CommandTopic(m) == <<"gateway", m.gateway_id, "command", m.device_id>>
CommandPayload(m) ==
  [k \in {"command_id", "device_id", "command", "params", "timestamp", "user_id"} |->
     IF k = "command_id" THEN m.command_id
     ELSE IF k = "device_id" THEN m.device_id
     ELSE IF k = "command" THEN "fan_on"
     ELSE k]

\* CONFIG['topics']['vps_command'], the filter the gateway subscribes to
vps_command == <<"gateway", "command", "#">>

\* an MQTT topic filter against a topic, level by level
RECURSIVE TopicMatches(_, _)
TopicMatches(filter, topic) ==
  IF filter = <<>> THEN topic = <<>>
  ELSE IF Head(filter) = "#" THEN TRUE
  ELSE IF topic = <<>> THEN FALSE
  ELSE /\ Head(filter) \in {"+", Head(topic)}
       /\ TopicMatches(Tail(filter), Tail(topic))

RemoteCommands == {"remote_unlock", "remote_lock", "fan_on", "fan_off", "fan_toggle", "set_auto"}

\* Gateway.on_vps_message
on_vps_message(topic, payload) ==
  IF Len(topic) >= 3 /\ topic[2] = "command"
     /\ Get(payload, "cmd", Null) \in RemoteCommands
  THEN /\ process_remote_command(topic[3], payload.command_id)
       /\ UNCHANGED <<cmd_now, next_sweep, acked, expired>>
  ELSE UNCHANGED cmdVars

\* the broker routes the i-th command message: the connected gateway's client gets it
\* when its subscription matches the topic
route_command(i) ==
  LET m == cloud_commands[i]
  IN /\ m.command_id \notin cmd_routed
     /\ cmd_routed' = cmd_routed \cup {m.command_id}
     /\ IF TopicMatches(vps_command, CommandTopic(m))
        THEN on_vps_message(CommandTopic(m), CommandPayload(m))
        ELSE UNCHANGED cmdVars

(***************************************************************************)
(* Storage errors in the offline detector: Database.query commits each      *)
(* statement on its own and raises DatabaseError after rolling back the     *)
(* failing one; check_offline_gateways catches the exception at its end.    *)
(***************************************************************************)
FaultInit ==
  /\ faults = 0
  /\ det_marks = [g \in GatewayIds |-> 0]
  /\ det_cascades = [g \in GatewayIds |-> 0]

StaleGateways == {g \in GatewayIds : Stale(gateways[g], gateway_timeout)}

CountMarks(marked) == [g \in GatewayIds |-> det_marks[g] + IF g \in marked THEN 1 ELSE 0]
CountCascades(done) == [g \in GatewayIds |-> det_cascades[g] + IF g \in done THEN 1 ELSE 0]

\* check_offline_gateways: the UPDATE of gateways raises; nothing is changed
check_offline_gateways_update_fails ==
  /\ det_pc = "idle"
  /\ ticks < MaxTicks
  /\ faults < MaxFaults
  /\ faults' = faults + 1
  /\ ticks' = ticks + 1
  /\ det_pc' = "devices"
  /\ det_rows' = {}
  /\ last_tick' = [NoTick EXCEPT !.log_start = Len(system_logs)]
  /\ UNCHANGED <<clock, gateways, devices, system_logs, ingested, det_marks, det_cascades>>

\* check_offline_gateways: the UPDATE of gateways is committed, the INSERT of the log
\* of one of the returned gateways raises after those of logged; the cascade is skipped
check_offline_gateways_log_fails(logged) ==
  /\ det_pc = "idle"
  /\ ticks < MaxTicks
  /\ faults < MaxFaults
  /\ StaleGateways # {}
  /\ logged \subseteq StaleGateways /\ logged # StaleGateways
  /\ faults' = faults + 1
  /\ ticks' = ticks + 1
  /\ gateways' = [g \in GatewayIds |->
                    IF g \in StaleGateways THEN [gateways[g] EXCEPT !.status = "offline"]
                    ELSE gateways[g]]
  /\ system_logs' = AppendAll(system_logs,
                              {Log("gateway_offline", g, Null, "periodic_check") :
                                 g \in logged})
  /\ det_pc' = "devices"
  /\ det_rows' = {}
  /\ last_tick' = [NoTick EXCEPT !.marked = StaleGateways, !.log_start = Len(system_logs)]
  /\ det_marks' = CountMarks(StaleGateways)
  /\ UNCHANGED <<clock, devices, ingested, det_cascades>>

\* check_offline_gateways: the cascade UPDATE of devices raises and is rolled back
check_offline_gateways_cascade_fails ==
  /\ det_pc = "cascade"
  /\ faults < MaxFaults
  /\ faults' = faults + 1
  /\ det_pc' = "devices"
  /\ det_rows' = {}
  /\ UNCHANGED <<clock, gateways, devices, system_logs, ingested, ticks, last_tick,
                 det_marks, det_cascades>>

\* check_offline_gateways: the cascade UPDATE is committed, the INSERT of the log of
\* one of the cascaded devices raises after those of logged
check_offline_gateways_cascade_log_fails(logged) ==
  /\ det_pc = "cascade"
  /\ faults < MaxFaults
  /\ LET cascaded_devices == {r \in DeviceRows :
                                r.gateway_id \in det_rows /\ devices[r].status # "offline"}
     IN /\ cascaded_devices # {}
        /\ logged \subseteq cascaded_devices /\ logged # cascaded_devices
        /\ devices' = [r \in DeviceRows |->
                         IF r \in cascaded_devices
                         THEN [devices[r] EXCEPT !.status = "offline"]
                         ELSE devices[r]]
        /\ system_logs' = CascadeAll(system_logs, logged)
        /\ last_tick' = [last_tick EXCEPT !.cascaded = cascaded_devices]
  /\ faults' = faults + 1
  /\ det_cascades' = CountCascades(det_rows)
  /\ det_pc' = "devices"
  /\ det_rows' = {}
  /\ UNCHANGED <<clock, gateways, ingested, ticks, det_marks>>

(***************************************************************************)
(* Fan automation on temperature samples, in the three gateway programs     *)
(* that carry one                                                           *)
(***************************************************************************)
FanBuilds == {"PD", "Gateway_vps_main", "User3"}

temp_threshold(b) ==
  CASE b = "PD" -> default_temp_threshold
    [] b = "Gateway_vps_main" -> auto_fan_temp_threshold
    [] OTHER -> temp_threshold_User3

Temperatures == (default_temp_threshold - 1)..(temp_threshold_User3 + 1)

\* sent: the command the automation issued; handed: the local broker was given it
NoSample ==
  [taken |-> FALSE, temperature |-> 0, enabled |-> FALSE, state |-> Null, sent |-> Null,
   handed |-> FALSE]
Sample(temperature, sent, handed) ==
  [taken |-> TRUE, temperature |-> temperature, enabled |-> auto_fan_enabled,
   state |-> fan_state, sent |-> sent, handed |-> handed]

\* RemoteControlManager.__init__ has fan_state None; MQTTManager.__init__ of User3 has
\* fan_auto_on False; the other gateway tracks no fan state
FanInitFor(b, enabled) ==
  /\ fan_build = b
  /\ auto_fan_enabled = enabled
  /\ fan_state = IF b = "User3" THEN "off" ELSE Null
  /\ fan_commands = <<>>
  /\ fan_sample = NoSample

FanInit == \E b \in FanBuilds, enabled \in BOOLEAN : FanInitFor(b, enabled)
FanQuiet == FanInitFor("PD", TRUE)

\* a send that reports success whether or not the broker was given the command
send_local_mqtt_command_blind(commands, command, local_connected) ==
  [ret |-> TRUE,
   published |-> IF local_connected THEN Append(commands, command) ELSE commands]

\* RemoteControlManager.send_local_mqtt_command: publishes and returns True when the
\* local MQTT client is connected, returns False otherwise
send_local_mqtt_command(commands, command, local_connected) ==
  IF local_connected
  THEN [ret |-> TRUE, published |-> Append(commands, command)]
  ELSE [ret |-> FALSE, published |-> commands]

\* RemoteControlManager.handle_temp_sensor_data
handle_temp_sensor_data(temperature, local_connected) ==
  LET threshold == temp_threshold("PD")
      should_be_on == temperature >= threshold
      command == IF should_be_on THEN "fan_on" ELSE "fan_off"
      send == send_local_mqtt_command(fan_commands, command, local_connected)
  IN IF ~auto_fan_enabled
     THEN /\ fan_sample' = Sample(temperature, Null, FALSE)
          /\ UNCHANGED <<fan_state, fan_commands>>
     ELSE IF \/ fan_state = Null
             \/ (should_be_on /\ fan_state = "off")
             \/ (~should_be_on /\ fan_state = "on")
          THEN /\ fan_commands' = send.published
               /\ fan_state' = IF send.ret
                                THEN IF should_be_on THEN "on" ELSE "off"
                                ELSE fan_state
               /\ fan_sample' = Sample(temperature, command, local_connected)
          ELSE /\ fan_sample' = Sample(temperature, Null, FALSE)
               /\ UNCHANGED <<fan_state, fan_commands>>

\* Gateway.auto_fan_control of src/Gateway/vps_main.py
auto_fan_control(temperature) ==
  LET threshold == temp_threshold("Gateway_vps_main")
      should_be_on == temperature >= threshold
      command == IF should_be_on THEN "fan_on" ELSE "fan_off"
  IN IF auto_fan_enabled
     THEN /\ fan_commands' = Append(fan_commands, command)
          /\ fan_sample' = Sample(temperature, command, TRUE)
          /\ UNCHANGED fan_state
     ELSE /\ fan_sample' = Sample(temperature, Null, FALSE)
          /\ UNCHANGED <<fan_state, fan_commands>>

\* MQTTManager.handle_temperature_data of User3; fan_auto_on is fan_state = "on"
handle_temperature_data(temperature) ==
  LET threshold == temp_threshold("User3")
  IN IF auto_fan_enabled /\ temperature > threshold /\ fan_state # "on"
     THEN /\ fan_commands' = Append(fan_commands, "fan_on")
          /\ fan_state' = "on"
          /\ fan_sample' = Sample(temperature, "fan_on", TRUE)
     ELSE IF auto_fan_enabled /\ temperature <= threshold /\ fan_state = "on"
     THEN /\ fan_commands' = Append(fan_commands, "fan_off")
          /\ fan_state' = "off"
          /\ fan_sample' = Sample(temperature, "fan_off", TRUE)
     ELSE /\ fan_sample' = Sample(temperature, Null, FALSE)
          /\ UNCHANGED <<fan_state, fan_commands>>

\* a temperature sample from the configured temperature device, with the local MQTT
\* client connected or not
temperature_sample(temperature, local_connected) ==
  /\ Len(fan_commands) < MaxFanCommands
  /\ CASE fan_build = "PD" -> handle_temp_sensor_data(temperature, local_connected)
       [] fan_build = "Gateway_vps_main" -> auto_fan_control(temperature)
       [] OTHER -> handle_temperature_data(temperature)
  /\ UNCHANGED <<fan_build, auto_fan_enabled>>

valid_commands == {"fan_on", "fan_off", "fan_toggle", "set_auto"}
FanCommands == valid_commands \cup {"fan_max"}

\* RemoteControlManager.handle_fan_command: a remote command for the fan
handle_fan_command(command, local_connected) ==
  LET send == send_local_mqtt_command(fan_commands, command, local_connected)
  IN /\ fan_build = "PD"
     /\ Len(fan_commands) < MaxFanCommands
     /\ IF command \notin valid_commands
        THEN UNCHANGED <<fan_state, fan_commands>>
        ELSE /\ fan_commands' = send.published
             /\ fan_state' = IF send.ret /\ command \in {"fan_on", "fan_off"}
                              THEN IF command = "fan_on" THEN "on" ELSE "off"
                              ELSE fan_state
     /\ UNCHANGED <<fan_build, auto_fan_enabled, fan_sample>>

(***************************************************************************)
(* check_access_rules as a function of the stored rules, the method, the    *)
(* user and the local time, over rule sets whose windows may overlap        *)
(***************************************************************************)
RuleAlways == [name |-> "always", enabled |-> TRUE, start_time |-> 0, end_time |-> DayLength - 1,
               allowed_methods |-> {"passkey", "rfid"}, restricted_users |-> {"pw_guest"}]
OverlappingRuleConfigs == { <<RuleAlways, RuleNight>>, <<RuleNight, RuleAlways>> }
RuleUsers == PasswordIds \cup CardUids
RuleMethods == {"passkey", "rfid"}
RuleBuilds == {"PD", "GM"}

NoRuleCall == [made |-> FALSE, build |-> "PD", rules |-> <<>>, method |-> "rfid",
               user_id |-> "pw_owner", t |-> 0]

RuleInit ==
  /\ rule_call = NoRuleCall
  /\ rule_result = [allowed |-> TRUE, reason |-> Null]

\* one call of Database.check_access_rules at local time t
call_check_access_rules(b, rules, method, user_id, t) ==
  /\ rule_call' = [made |-> TRUE, build |-> b, rules |-> rules, method |-> method,
                   user_id |-> user_id, t |-> t]
  /\ rule_result' = IF b = "PD" THEN check_access_rules(rules, method, user_id, t)
                    ELSE check_access_rules_GM(rules, method, user_id, t)

(***************************************************************************)
(* The streaming frame parsers: LoRaHandler._parse_buffer, the loop of      *)
(* Gateway.run and read_loop of User1.  Each read appends what the serial   *)
(* link holds to the buffer and parses the buf as far as it goes.        *)
(***************************************************************************)
StreamBuilds == {"LH", "PD", "User1"}

\* bytes.find(b'\x00\x02\x17'), counted from 1; 0 when absent
Find(buf) ==
  LET hits == {i \in 1..(Len(buf) - 2) : SubSeq(buf, i, i + 2) = Magic}
  IN IF hits = {} THEN 0 ELSE CHOOSE i \in hits : \A j \in hits : i <= j

From(buf, i) == SubSeq(buf, i, Len(buf))

\* LoRaHandler._parse_buffer
RECURSIVE _parse_buffer(_, _)
_parse_buffer(buf, out) ==
  LET header_idx == Find(buf)
  IN IF header_idx = 0
     THEN [buffer |-> IF Len(buf) > 3 THEN From(buf, Len(buf) - 2) ELSE buf,
           out |-> out]
     ELSE LET trimmed == From(buf, header_idx)
          IN IF Len(trimmed) < 12 THEN [buffer |-> trimmed, out |-> out]
             ELSE LET raw == From(trimmed, 4)
                      uid_len == raw[9]
                      expected_len == 9 + uid_len + 4
                  IN IF Len(raw) < expected_len THEN [buffer |-> trimmed, out |-> out]
                     ELSE LET candidate == SubSeq(trimmed, 1, 3 + expected_len)
                              message == _parse_message(candidate)
                          IN _parse_buffer(From(trimmed, 3 + expected_len + 1),
                                           IF message.ok THEN Append(out, candidate)
                                           ELSE out)

\* Gateway.run: the loop over lora_buffer
RECURSIVE run_parse(_, _)
run_parse(buf, out) ==
  LET header_idx == Find(buf)
  IN IF header_idx = 0 THEN [buffer |-> buf, out |-> out]
     ELSE LET raw == From(buf, header_idx + 3)
          IN IF Len(raw) < 9 THEN [buffer |-> buf, out |-> out]
             ELSE LET uid_len == raw[9]
                      msg_len == 9 + uid_len + 4
                  IN IF Len(raw) < msg_len THEN [buffer |-> buf, out |-> out]
                     ELSE LET candidate ==
                                SubSeq(buf, header_idx, header_idx + 2 + msg_len)
                              message == parse_lora_message(candidate)
                          IN run_parse(From(buf, header_idx + 3 + msg_len),
                                       IF message.ok THEN Append(out, candidate)
                                       ELSE out)

\* read_loop of User1
RECURSIVE read_loop(_, _)
read_loop(buf, out) ==
  IF Len(buf) < 12 THEN [buffer |-> buf, out |-> out]
  ELSE IF SubSeq(buf, 1, 3) = Magic
  THEN LET payload_length == buf[12]
           total_length == 12 + payload_length + 4
       IN IF Len(buf) >= total_length
          THEN LET packet == SubSeq(buf, 1, total_length)
                   received_crc == unpack_I_word(SubSeq(packet, total_length - 3, total_length))
                   calculated_crc == crc32(SubSeq(packet, 4, 12 + payload_length))
               IN read_loop(From(buf, total_length + 1),
                            IF received_crc = calculated_crc THEN Append(out, packet)
                            ELSE out)
          ELSE [buffer |-> buf, out |-> out]
  ELSE read_loop(Tail(buf), out)

parse_stream(b, buf, out) ==
  CASE b = "LH" -> _parse_buffer(buf, out)
    [] b = "PD" -> run_parse(buf, out)
    [] OTHER -> read_loop(buf, out)

\* the largest frame: magic, nine header bytes, 255 payload bytes, four CRC bytes
MaxFrameSize == 3 + 9 + 255 + 4

\* the streams read: two rfid_scan frames, each possibly preceded by garbage or by a
\* corrupt frame, possibly followed by the beginning of a third
StreamFrame(seq) ==
  [version |-> 1, msg_type |-> 1, device_type |-> 1, flags |-> 0, seq |-> seq,
   timestamp |-> 1, payload |-> <<65>>]
Replace(data, i, b) == [k \in 1..Len(data) |-> IF k = i THEN b ELSE data[k]]
CorruptPayload == Replace(encode(StreamFrame(3)), 13, 66)
CorruptLength == Replace(encode(StreamFrame(3)), 12, 2)
Garbage == {<<>>, <<7>>, <<0, 2>>, Magic, CorruptPayload, CorruptLength}
Trailing == {<<>>, SubSeq(encode(StreamFrame(4)), 1, 5)}
NoStream == [bytes |-> <<>>, frames |-> <<>>, trailing |-> <<>>, damage |-> {}]
Streams ==
  {[bytes |-> g1 \o encode(StreamFrame(1)) \o g2 \o encode(StreamFrame(2)) \o tr,
    frames |-> <<encode(StreamFrame(1)), encode(StreamFrame(2))>>,
    trailing |-> tr, damage |-> {g1, g2}] :
     g1 \in Garbage, g2 \in {<<>>, <<7>>}, tr \in Trailing}
  \cup {[bytes |-> [i \in 1..(MaxFrameSize + 1) |-> 7], frames |-> <<>>,
         trailing |-> <<>>, damage |-> {<<7>>}]}

\* serial_conn.in_waiting: from a single byte to more than two frames at a time
ChunkSizes == {1, 2, 5, 17, 40}

StreamInitFor(b, s) ==
  /\ stream_build = b
  /\ stream = s
  /\ fed = 0
  /\ lora_buffer = <<>>
  /\ emitted = <<>>

StreamInit == \E b \in StreamBuilds, s \in Streams : StreamInitFor(b, s)
StreamQuiet == StreamInitFor("LH", NoStream)

\* one turn of the receive loop: read the n bytes waiting and parse the buffer
receive(n) ==
  /\ fed + n <= Len(stream.bytes)
  /\ LET new_data == SubSeq(stream.bytes, fed + 1, fed + n)
         parsed == parse_stream(stream_build, lora_buffer \o new_data, emitted)
     IN /\ lora_buffer' = parsed.buffer
        /\ emitted' = parsed.out
  /\ fed' = fed + n
  /\ UNCHANGED <<stream_build, stream>>

(***************************************************************************)
(* Cloud ingest and the owners of what it touches: the statements of        *)
(* handle_telemetry, handle_access and handle_device_status with the        *)
(* user_id of every row they insert or update and of every broadcast they   *)
(* queue.  Gateway1 and its devices belong to u1, Gateway3 and its device   *)
(* to u2.                                                                   *)
(***************************************************************************)
DeviceOwner(r) == IF r.gateway_id = "Gateway1" THEN "u1" ELSE "u2"
PasswordOwner(password_id) == IF password_id = "pw_owner" THEN "u1" ELSE "u2"
CardOwner(uid) == IF uid = "a1b2c3d4" THEN "u1" ELSE "u2"
TenantPasswords == {"pw_owner", "pw_guest"}
TenantCards == {"a1b2c3d4", "c2c2c2c2"}
IngestDevices == DeviceIds \cup {"ghost_01"}

NoIngest ==
  [made |-> FALSE, kind |-> "", gateway_id |-> "", device_id |-> "", method |-> "",
   identifier |-> "", result |-> ""]
Ingest(kind, gateway_id, device_id, method, identifier, result) ==
  [made |-> TRUE, kind |-> kind, gateway_id |-> gateway_id, device_id |-> device_id,
   method |-> method, identifier |-> identifier, result |-> result]
Written(table, key, user_id) == [table |-> table, key |-> key, user_id |-> user_id]

TenantInit ==
  /\ tn_msg = NoIngest
  /\ tn_writes = {}
  /\ tn_broadcasts = {}

\* FROM devices d WHERE d.device_id = %s AND d.gateway_id = %s
DevicesOf(device_id, gateway_id) ==
  {r \in DeviceRows : r.device_id = device_id /\ r.gateway_id = gateway_id}

\* SELECT user_id FROM devices WHERE device_id = %s
ByDeviceId(device_id) == {r \in DeviceRows : r.device_id = device_id}

\* query_one of that result: the first row of a result without ORDER BY, whichever
\* the database returns first; no user when there is no row
FirstRow(device_id, picked) ==
  picked \in ByDeviceId(device_id) \/ ByDeviceId(device_id) = {}
BroadcastUser(device_id, picked) ==
  IF picked \in ByDeviceId(device_id) THEN {DeviceOwner(picked)} ELSE {}

\* MQTTService.handle_telemetry
ingest_telemetry(gateway_id, device_id, picked) ==
  /\ FirstRow(device_id, picked)
  /\ tn_msg' = Ingest("telemetry", gateway_id, device_id, "", "", "")
  /\ tn_writes' =
       {Written("telemetry", r.device_id, DeviceOwner(r)) : r \in DevicesOf(device_id, gateway_id)}
       \cup {Written("devices", r.device_id, DeviceOwner(r)) : r \in DevicesOf(device_id, gateway_id)}
  /\ tn_broadcasts' = BroadcastUser(device_id, picked)

\* MQTTService.handle_access
ingest_access(gateway_id, device_id, method, identifier, result, picked) ==
  /\ FirstRow(device_id, picked)
  /\ tn_msg' = Ingest("access", gateway_id, device_id, method, identifier, result)
  /\ tn_writes' =
       {Written("access_logs", r.device_id, DeviceOwner(r)) : r \in DevicesOf(device_id, gateway_id)}
       \cup {Written("devices", r.device_id, DeviceOwner(r)) : r \in DevicesOf(device_id, gateway_id)}
       \cup (IF method = "passkey" /\ result = "granted" /\ identifier \in TenantPasswords
             THEN {Written("passwords", identifier, PasswordOwner(identifier))}
             ELSE IF method = "rfid" /\ result = "granted" /\ identifier \in TenantCards
             THEN {Written("rfid_cards", identifier, CardOwner(identifier))}
             ELSE {})
  /\ tn_broadcasts' = BroadcastUser(device_id, picked)

\* MQTTService.handle_device_status
ingest_device_status(gateway_id, device_id) ==
  /\ tn_msg' = Ingest("status", gateway_id, device_id, "", "", "")
  /\ tn_writes' =
       {Written("devices", r.device_id, DeviceOwner(r)) : r \in DevicesOf(device_id, gateway_id)}
       \cup {Written("system_logs", r.device_id, DeviceOwner(r)) : r \in DevicesOf(device_id, gateway_id)}
  /\ tn_broadcasts' = {DeviceOwner(r) : r \in DevicesOf(device_id, gateway_id)}

(***************************************************************************)
(* Cloud ingest with the time each message was received                    *)
(* (Server_Python/api/services/mqtt_service.py)                            *)
(***************************************************************************)
NotReceived == [at |-> NoTime, n |-> 0]
Received(at, n) == [at |-> at, n |-> n]

RecvInit ==
  /\ rc_dev = [r \in DeviceRows |-> NotReceived]
  /\ rc_gw = [g \in GatewayIds |-> NotReceived]

\* the row a message names, noted as received now; a pair that is no row of devices
\* notes nothing
NoteDevice(gateway_id, device_id) ==
  [r \in DeviceRows |->
     IF r = Row(gateway_id, device_id) THEN Received(clock, ingested + 1) ELSE rc_dev[r]]

\* on_message: msg_type 'telemetry'
on_message_telemetry(gateway_id, device_id, timestamp) ==
  /\ handle_telemetry(gateway_id, device_id, timestamp)
  /\ rc_dev' = NoteDevice(gateway_id, device_id)
  /\ UNCHANGED rc_gw

\* on_message: msg_type 'access'
on_message_access(gateway_id, device_id, timestamp) ==
  /\ handle_access(gateway_id, device_id, timestamp)
  /\ rc_dev' = NoteDevice(gateway_id, device_id)
  /\ UNCHANGED rc_gw

\* on_message: msg_type 'status' of a device
on_message_device_status(gateway_id, device_id, status, timestamp) ==
  /\ handle_device_status(gateway_id, device_id, status, timestamp)
  /\ rc_dev' = IF normalize_device_status(status) = "online"
               THEN NoteDevice(gateway_id, device_id)
               ELSE rc_dev
  /\ UNCHANGED rc_gw

\* on_message: msg_type 'status' of entity 'gateway'; a heartbeat carries status online
on_message_gateway_status(gateway_id, status, timestamp) ==
  /\ handle_gateway_status(gateway_id, status, timestamp)
  /\ rc_gw' = IF normalize_gateway_status(status) = "online"
              THEN [rc_gw EXCEPT ![gateway_id] = Received(clock, ingested + 1)]
              ELSE rc_gw
  /\ UNCHANGED rc_dev

ExtInit == SyncQuiet /\ FrameQuiet /\ FileInit /\ CmdInit /\ LogInit /\ HbQuiet /\ WsInit /\ NvQuiet /\ PathInit /\ FaultInit /\ FanQuiet /\ RuleInit /\ StreamQuiet /\ TenantInit /\ RecvInit

\* the request pipeline alone, with the security manager and the store as constructed
AuthQuiet == AuthInit /\ build = "PD" /\ access_rules = <<>>

Init == AuthInit /\ nonce_calls = <<>> /\ BufInit /\ CloudInit /\ ExtInit
Next ==
  \/ \E d \in Devices, p \in Payloads(now) :
       LocalRequest(d, p) /\ UNCHANGED <<nonce_calls, bufVars, cloudVars, extVars>>
  \/ \E d \in Devices, p \in Payloads(now) :
       LocalRequestGM(d, p) /\ UNCHANGED <<nonce_calls, bufVars, cloudVars, extVars>>
  \/ \E u \in Uids : RfidScan(u) /\ UNCHANGED <<nonce_calls, bufVars, cloudVars, extVars>>
  \/ Tick /\ UNCHANGED <<nonce_calls, bufVars, cloudVars, extVars>>
Spec == Init /\ [][Next]_vars

SpecBufInit == AuthQuiet /\ nonce_calls = <<>> /\ BufInit /\ CloudInit /\ ExtInit
SpecBufNext ==
  \/ \E w \in Workers :
       /\ ForwardCall(w, Forwards(w).msg_type, Forwards(w).device_id)
       /\ UNCHANGED <<authVars, nonce_calls, cloudVars, extVars>>
  \/ \E w \in Workers : ForwardPublish(w) /\ UNCHANGED <<authVars, nonce_calls, cloudVars, extVars>>
  \/ \E w \in Workers : ForwardAppend(w) /\ UNCHANGED <<authVars, nonce_calls, cloudVars, extVars>>
  \/ LinkUp /\ UNCHANGED <<authVars, nonce_calls, cloudVars, extVars>>
  \/ LinkDown /\ UNCHANGED <<authVars, nonce_calls, cloudVars, extVars>>
  \/ LinkRefused /\ UNCHANGED <<authVars, nonce_calls, cloudVars, extVars>>
  \/ on_vps_connect /\ UNCHANGED <<authVars, nonce_calls, cloudVars, extVars>>
  \/ on_vps_connect_failed /\ UNCHANGED <<authVars, nonce_calls, cloudVars, extVars>>
  \/ on_vps_disconnect /\ UNCHANGED <<authVars, nonce_calls, cloudVars, extVars>>
  \/ FlushEnter /\ UNCHANGED <<authVars, nonce_calls, cloudVars, extVars>>
  \/ FlushOne /\ UNCHANGED <<authVars, nonce_calls, cloudVars, extVars>>
  \/ FlushExit /\ UNCHANGED <<authVars, nonce_calls, cloudVars, extVars>>
SpecBuf == SpecBufInit /\ [][SpecBufNext]_vars

SpecCloudInit == AuthQuiet /\ nonce_calls = <<>> /\ BufInit /\ CloudInit /\ ExtInit
SpecCloudNext ==
  \/ \E g \in GatewayIds, d \in DeviceIds, t \in MsgTimes :
       handle_telemetry(g, d, t) /\ UNCHANGED <<authVars, nonce_calls, bufVars, extVars>>
  \/ \E g \in GatewayIds, d \in DeviceIds, t \in MsgTimes :
       handle_access(g, d, t) /\ UNCHANGED <<authVars, nonce_calls, bufVars, extVars>>
  \/ \E g \in GatewayIds, d \in DeviceIds, w \in DeviceStatusWords, t \in MsgTimes :
       handle_device_status(g, d, w, t) /\ UNCHANGED <<authVars, nonce_calls, bufVars, extVars>>
  \/ \E g \in GatewayIds, w \in GatewayStatusWords, t \in MsgTimes :
       handle_gateway_status(g, w, t) /\ UNCHANGED <<authVars, nonce_calls, bufVars, extVars>>
  \/ check_offline_gateways_mark /\ UNCHANGED <<authVars, nonce_calls, bufVars, extVars>>
  \/ check_offline_gateways_cascade /\ UNCHANGED <<authVars, nonce_calls, bufVars, extVars>>
  \/ check_offline_devices /\ UNCHANGED <<authVars, nonce_calls, bufVars, extVars>>
  \/ ClockTick /\ UNCHANGED <<authVars, nonce_calls, bufVars, extVars>>
SpecCloud == SpecCloudInit /\ [][SpecCloudNext]_vars

(***************************************************************************)
(* Claims about the request pipeline                                       *)
(***************************************************************************)
\* a step that handles the request (device_id, payload), in either build
RequestStep(device_id, payload) ==
  LocalRequest(device_id, payload) \/ LocalRequestGM(device_id, payload)

\* the six checks of the pipeline, stated on the state before the request
FirstFailingCheck(device_id, payload) ==
  IF device_id \in DOMAIN lockout_until /\ now < lockout_until[device_id] THEN 1
  ELSE IF ~payload.has_hmac \/ ~payload.has_body THEN 2
  ELSE IF payload.hmac # compute_hmac(payload.body, hmac_key) THEN 3
  ELSE IF ~payload.body.json_ok THEN 4
  ELSE IF ~(payload.body.has_ts
            /\ Abs(now - payload.body.ts) <= timestamp_tolerance_seconds) THEN 5
  ELSE IF InSeq(used_nonces, BodyNonce(payload.body)) THEN 6
  ELSE 0

\* the check a LOCK reason names (both builds' spellings), 0 for the reasons of the dispatch
CheckNamed(reason) ==
  CASE reason \in {"locked_out", "device_locked_out"} -> 1
    [] reason \in {"invalid_format", "invalid_message_format"} -> 2
    [] reason = "invalid_signature" -> 3
    [] reason = "invalid_json" -> 4
    [] reason = "invalid_timestamp" -> 5
    [] reason = "replay_attack" -> 6
    [] OTHER -> 0

\* C1: every request ends with LOCK naming the first failing of the six checks, in
\* the fixed order, and is dispatched (OPEN possible) only when all six passed; no
\* check is skipped, also not for a body whose ts or nonce is missing or zero.
C1_PipelineOrder ==
  [][\A d \in Devices, p \in Payloads(now) :
       RequestStep(d, p) =>
         LET k == FirstFailingCheck(d, p)
         IN IF k # 0
            THEN /\ Len(local_out') = 1
                 /\ local_out'[1].cmd = "LOCK"
                 /\ CheckNamed(local_out'[1].reason) = k
            ELSE \A i \in 1..Len(local_out') : CheckNamed(local_out'[i].reason) = 0]_vars

\* the stored credential an access log names
Credential(m) ==
  IF m.event = "rfid"
  THEN rfid_cards[FirstMatch({k \in 1..Len(rfid_cards) : rfid_cards[k].uid = m.id})]
  ELSE passwords[FirstMatch({k \in 1..Len(passwords) : passwords[k].id = m.id})]

ValidAt(cred, t) == cred.active /\ (cred.expires_at = NoTime \/ cred.expires_at > t)

\* C2: OPEN or GRANT is sent only for a credential that is active and whose
\* expires_at is null or later than the time of the authentication.
C2_ActiveUnexpiredOnly ==
  \A i \in 1..Len(local_out) :
    local_out[i].cmd \in {"OPEN", "GRANT"} =>
      \E j \in 1..Len(vps_out) :
        /\ vps_out[j].type = "access_attempt"
        /\ vps_out[j].result = "granted"
        /\ ValidAt(Credential(vps_out[j]), vps_out[j].timestamp)

(***************************************************************************)
(* SecurityManager called directly: any sequence of validate_nonce calls   *)
(***************************************************************************)
Nonces == 0..nonce_cache_size
MaxCalls == nonce_cache_size + 3

NonceInit == AuthQuiet /\ nonce_calls = <<>> /\ BufInit /\ CloudInit /\ ExtInit

CallValidateNonce(n) ==
  /\ Len(nonce_calls) < MaxCalls
  /\ LET r == validate_nonce(SecState, n)
     IN /\ used_nonces' = r.S.un
        /\ nonce_calls' = Append(nonce_calls, [n |-> n, ret |-> r.ret])
  /\ UNCHANGED <<build, now, failed_attempts, lockout_until, storeVars, local_out, vps_out,
                 histVars, bufVars, cloudVars, extVars>>

NonceNext == \E n \in Nonces : CallValidateNonce(n)

NonceSpec == NonceInit /\ [][NonceNext]_vars

\* the accepted calls strictly between calls i and j
AcceptedBetween(i, j) ==
  Cardinality({k \in (i + 1)..(j - 1) : nonce_calls[k].ret})

\* C3: a call validate_nonce(n) returns false exactly when an earlier call accepted n
\* and fewer than nonce_cache_size nonces were accepted since (n is still in the FIFO
\* cache); so n is accepted once, refused until evicted, and accepted again afterwards.
C3_NonceOncePerResidence ==
  \A j \in 1..Len(nonce_calls) :
    nonce_calls[j].ret <=>
      ~ \E i \in 1..(j - 1) :
          /\ nonce_calls[i].n = nonce_calls[j].n
          /\ nonce_calls[i].ret
          /\ AcceptedBetween(i, j) < nonce_cache_size

\* a nonce accepted, refused while cached, and accepted again after its eviction
C3_Witness ==
  \E i, j, k \in 1..Len(nonce_calls) :
    /\ i < j /\ j < k
    /\ nonce_calls[i].n = nonce_calls[j].n /\ nonce_calls[j].n = nonce_calls[k].n
    /\ nonce_calls[i].ret /\ ~nonce_calls[j].ret /\ nonce_calls[k].ret

(***************************************************************************)
(* Claims about lockout, replay and the passkey outcome                    *)
(***************************************************************************)
\* C4: a device is locked out exactly while its run of consecutive recorded failures
\* stands at a multiple of max_failed_attempts and less than lockout_duration has
\* passed since the failure that completed it (false from then on); record_success
\* leaves the device with no counter and no lockout, and OPEN is sent in that state.
C4_LockoutWindow ==
  \A d \in Devices :
    /\ is_locked_out(SecState, d, now).ret <=>
         /\ g_run[d] > 0
         /\ g_run[d] % max_failed_attempts = 0
         /\ now < g_last[d] + lockout_duration_seconds
    /\ LET S2 == record_success(SecState, d)
       IN /\ ~is_locked_out(S2, d, now).ret
          /\ Get(S2.fa, d, 0) = 0
          /\ d \notin DOMAIN S2.lu
    /\ local_out = <<Open(d)>> =>
         /\ Called(sec_calls, "record_success") = 1
         /\ d \notin DOMAIN failed_attempts
         /\ d \notin DOMAIN lockout_until

\* max_failed_attempts consecutive failures locked the device and the lockout has elapsed
C4_Witness ==
  \E d \in Devices :
    /\ g_run[d] = max_failed_attempts
    /\ now >= g_last[d] + lockout_duration_seconds
    /\ ~is_locked_out(SecState, d, now).ret

\* C5: a request that was just granted OPEN and is sent again unchanged is answered
\* LOCK replay_attack, one failed attempt is recorded, and a security alert is
\* forwarded to the cloud.
C5_ReplayAlert ==
  (/\ replayed # <<>>
   /\ replayed[1].payload.body.has_ts
   /\ replayed[1].payload.body.has_nonce
   /\ replayed[1].payload.body.nonce # 0) =>
    /\ Len(local_out) = 1
    /\ local_out[1].cmd = "LOCK"
    /\ local_out[1].reason = "replay_attack"
    /\ Called(sec_calls, "record_failed_attempt") = 1
    /\ \E i \in 1..Len(vps_out) : vps_out[i].type = "security_alert"

\* the stored password a hash matches, 0 if none (active entries only)
MatchedPassword(password_hash) ==
  FirstMatch({k \in 1..Len(passwords) :
                passwords[k].hash = password_hash /\ passwords[k].active})

\* C6: a passkey unlock_request that passed the six checks is answered OPEN when the
\* password matches and the access rule permits, with the device's counter and
\* lockout cleared and the matched password's last_used set; otherwise it is answered
\* LOCK with the denial reason and exactly one failed attempt is recorded.
C6_PasskeyOutcome ==
  [][\A d \in Devices, p \in Payloads(now) :
       (RequestStep(d, p) /\ FirstFailingCheck(d, p) = 0
          /\ p.body.cmd = "unlock_request") =>
         LET k == MatchedPassword(p.body.pw)
             permit == k # 0 /\ check_access_rules(access_rules, "passkey",
                                                   passwords[k].id, now).allowed
         IN IF permit
            THEN /\ local_out' = <<Open(d)>>
                 /\ d \notin DOMAIN failed_attempts'
                 /\ d \notin DOMAIN lockout_until'
                 /\ passwords'[k].last_used = now
            ELSE /\ Len(local_out') = 1
                 /\ local_out'[1].cmd = "LOCK"
                 /\ CheckNamed(local_out'[1].reason) = 0
                 /\ Called(sec_calls', "record_failed_attempt") = 1]_vars

(***************************************************************************)
(* Claims about the store-and-forward buffer                               *)
(***************************************************************************)
\* the messages forward_to_vps put into the buffer, in enqueue order
Enqueued == SelectSeq(forwarded, LAMBDA r : r.route = "buffered")

LastOf(q, n) == IF Len(q) <= n THEN q ELSE SubSeq(q, Len(q) - n + 1, Len(q))

\* position of message id in the enqueue order
EnqueuePos(id) == CHOOSE i \in 1..Len(Enqueued) : Enqueued[i].id = id

C8_PublishedOnce ==
  /\ \A i, j \in 1..Len(published) :
       (i < j /\ published[i].id # 0) => published[i].id # published[j].id
  /\ \A i, j \in 1..Len(published) :
       (i < j /\ published[i].flushed /\ published[j].flushed) =>
         published[i].by <= published[j].by
  /\ (pc["vps"] = "flushing") <=> (buffer_lock = "vps")
  /\ \A i \in 1..Len(buffer) : \A j \in 1..Len(published) : buffer[i].id # published[j].id

\* two flush invocations, after two reconnects, each published buffered messages
C8_Witness ==
  \E i, j \in 1..Len(published) :
    /\ published[i].flushed /\ published[j].flushed
    /\ published[i].by = 1 /\ published[j].by = 2

\* C23: the messages of one device, forwarded by one worker, reach the cloud broker in
\* the order they arrived at the gateway, also when earlier ones were buffered and are
\* flushed while later ones arrive.
C23_ArrivalOrderPerDevice ==
  \A i, j \in 1..Len(published) :
    (/\ i < j
     /\ published[i].ok /\ published[j].ok
     /\ published[i].id # 0 /\ published[j].id # 0
     /\ published[i].topic = published[j].topic)
      => published[i].id < published[j].id

\* C30: the offline buffer never holds more than buffer_max_size messages and holds
\* them in the order they were enqueued; an append to a full buffer discards the oldest
\* message, keeps the others in place and puts the new one last.
C30_BufferBounded ==
  /\ [](/\ Len(buffer) <= buffer_max_size
        /\ \A i, j \in 1..Len(buffer) :
             i < j => EnqueuePos(buffer[i].id) < EnqueuePos(buffer[j].id))
  /\ [][\A w \in Workers :
          (pc[w] = "append" /\ pc'[w] = "idle") =>
            LET new == [topic |-> cur[w].topic, id |-> cur[w].id]
            IN buffer' = IF Len(buffer) >= buffer_max_size
                         THEN Append(Tail(buffer), new)
                         ELSE Append(buffer, new)]_vars

\* a message was appended to a full buffer: more were enqueued than the buffer holds
\* and none has been flushed
C30_Witness ==
  /\ flush_count = 0
  /\ Len(Enqueued) > buffer_max_size
  /\ Len(buffer) = buffer_max_size
  /\ buffer[Len(buffer)].id = Enqueued[Len(Enqueued)].id

(***************************************************************************)
(* Claims about the cloud's gateway and device status                      *)
(***************************************************************************)
\* C9: between detector ticks, a gateway whose status is offline has only devices
\* whose status is offline, whatever ingest and ticks came before.
C9_OfflineGatewayOfflineDevices ==
  det_pc = "idle" =>
    \A r \in DeviceRows :
      gateways[r.gateway_id].status = "offline" => devices[r].status = "offline"

\* the logs the current or last detector tick could have appended
TickLogs == SubSeq(system_logs, last_tick.log_start + 1, Len(system_logs))

\* this tick's gateway_offline logs for a gateway
GatewayOfflineLogs(g) ==
  {i \in 1..Len(TickLogs) :
     TickLogs[i].event = "gateway_offline" /\ TickLogs[i].gateway_id = g}

\* this tick's device_offline logs with reason gateway_offline for a device_id
CascadeOfflineLogs(d) ==
  {i \in 1..Len(TickLogs) :
     /\ TickLogs[i].event = "device_offline"
     /\ TickLogs[i].meta = "gateway_offline"
     /\ TickLogs[i].device_id = d}

\* C10: a tick that marked gateways offline left each of their devices offline at its
\* cascade, appended exactly one gateway_offline log per such gateway and exactly one
\* device_offline log with reason gateway_offline per cascaded device.
C10_CascadeInTick ==
  (det_pc = "idle" /\ last_tick.marked # {}) =>
    /\ last_tick.not_offline = {}
    /\ \A g \in last_tick.marked : Cardinality(GatewayOfflineLogs(g)) = 1
    /\ \A d \in DeviceIds :
         Cardinality(CascadeOfflineLogs(d))
           = Cardinality({r \in last_tick.cascaded : r.device_id = d})

\* this tick's device_offline logs for a device_id, whatever their reason
DeviceOfflineLogs(d) ==
  {i \in 1..Len(TickLogs) :
     TickLogs[i].event = "device_offline" /\ TickLogs[i].device_id = d}

\* C11: a tick sets every online device whose last_seen is older than device_timeout
\* offline, and its device_offline logs are exactly one per device it set offline, by
\* the cascade or by the device pass, never zero and never two.
C11_OneOfflineLogPerDevice ==
  (det_pc = "idle" /\ ticks > 0) =>
    /\ last_tick.stale \subseteq last_tick.timed_out
    /\ last_tick.stale_left = {}
    /\ \A d \in DeviceIds :
         Cardinality(DeviceOfflineLogs(d))
           = Cardinality({r \in last_tick.cascaded : r.device_id = d})
             + Cardinality({r \in last_tick.timed_out : r.device_id = d})

(***************************************************************************)
(* The sync endpoint and the gateway's credential store                    *)
(***************************************************************************)
\* X-DB-Version: absent, the version of the gateway's store, or the server's own
Versions == {NoVersion, calculate_db_version(gw_db), calculate_db_version(srv_db)}

SpecSyncInit ==
  /\ AuthQuiet /\ nonce_calls = <<>> /\ BufInit /\ CloudInit
  /\ SyncInit /\ FrameQuiet /\ FileInit /\ CmdInit /\ LogInit /\ HbQuiet /\ WsInit /\ NvQuiet /\ PathInit /\ FaultInit /\ FanQuiet /\ RuleInit /\ StreamQuiet /\ TenantInit /\ RecvInit
SpecSyncNext ==
  \/ \E v \in Versions : SyncRequest(v) /\ UNCHANGED <<coreVars, exceptSync>>
  \/ handle_sync_response /\ UNCHANGED <<coreVars, exceptSync>>
  \/ \E p \in PasswordIds : SyncAuthenticatePasskey(p) /\ UNCHANGED <<coreVars, exceptSync>>
  \/ \E p \in PasswordIds :
       update_password_last_used(p, sync_clock) /\ UNCHANGED <<coreVars, exceptSync>>
  \/ SyncClockTick /\ UNCHANGED <<coreVars, exceptSync>>
SpecSync == SpecSyncInit /\ [][SpecSyncNext]_vars

Newer(a, b) == IF a > b THEN a ELSE b

\* what the store should hold for a credential dict after the snapshot replaced it
Replaced(before, snapshot) ==
  [k \in DOMAIN snapshot |->
     IF k \in DOMAIN before
     THEN [snapshot[k] EXCEPT !.last_used = Newer(before[k].last_used, snapshot[k].last_used)]
     ELSE snapshot[k]]

\* C12: once the gateway has applied a sync response with needs_update = true, its
\* passwords, rfid_cards and devices are those of the server snapshot: entries absent
\* from the snapshot are gone, entries present carry the server's values, and a local
\* last_used survives only where it is newer than the server's.
C12_StoreEqualsSnapshot ==
  (sync_last.done /\ sync_last.needs_update) =>
    /\ gw_db.passwords = Replaced(sync_last.before.passwords, sync_last.database.passwords)
    /\ gw_db.rfid_cards = Replaced(sync_last.before.rfid_cards, sync_last.database.rfid_cards)
    /\ gw_db.devices = sync_last.database.devices

\* C13: a sync request whose X-DB-Version equals the version of the server's current
\* snapshot is answered with needs_update = false and no database body, and the round
\* leaves the gateway's credential store as it was.
C13_NoUpdateOnSameVersion ==
  /\ (sync_resp.pending /\ sync_resp.header = sync_resp.version) =>
       (~sync_resp.needs_update /\ ~sync_resp.has_database)
  /\ (sync_last.done /\ sync_last.header = sync_last.served) =>
       (~sync_last.needs_update /\ ~sync_last.has_database /\ gw_db = sync_last.before)

C13_Witness ==
  /\ sync_last.done
  /\ sync_last.header = sync_last.served
  /\ gw_db # srv_db

(***************************************************************************)
(* A frame sent over the link and decoded                                  *)
(***************************************************************************)
MaxOffset == 12 + MaxPayloadLen - 1

SpecFrameInit ==
  /\ AuthQuiet /\ nonce_calls = <<>> /\ BufInit /\ CloudInit
  /\ SyncQuiet /\ FrameInit /\ FileInit /\ CmdInit /\ LogInit /\ HbQuiet /\ WsInit /\ NvQuiet /\ PathInit /\ FaultInit /\ FanQuiet /\ RuleInit /\ StreamQuiet /\ TenantInit /\ RecvInit
SpecFrameNext ==
  \/ Send /\ UNCHANGED <<coreVars, exceptFrame>>
  \/ \E at \in 3..MaxOffset, bit \in 0..7 :
       FlipBit(at, bit) /\ UNCHANGED <<coreVars, exceptFrame>>
  \/ ReceivePD /\ UNCHANGED <<coreVars, exceptFrame>>
  \/ ReceiveHandler /\ UNCHANGED <<coreVars, exceptFrame>>
SpecFrame == SpecFrameInit /\ [][SpecFrameNext]_vars

\* the payload of F as the decoder renders that kind of payload
Rendered(kind, payload) == IF kind = "status" THEN payload ELSE Hex(payload)

\* C14: decoding the encoding of a well-formed frame F passes the CRC check and yields
\* exactly the fields of F: version, message type, device type, flags, sequence,
\* timestamp and payload.
C14_DecodeEncode ==
  (frame_pc = "decoded" /\ flipped = NoField) =>
    /\ decoded.ok
    /\ decoded.version = frame.version
    /\ decoded.msg_type_n = frame.msg_type
    /\ decoded.device_type_raw = frame.device_type
    /\ decoded.flags = frame.flags
    /\ decoded.seq = frame.seq
    /\ decoded.timestamp = frame.timestamp
    /\ decoded.payload.value = Rendered(decoded.payload.kind, frame.payload)

\* C15: a well-formed frame with one bit flipped in bytes 3..12+N-1 fails the CRC
\* validation: the decoder rejects it and no message comes out of it.
C15_BitFlipRejected ==
  (frame_pc = "decoded" /\ decoder = "parse_lora_message" /\ flipped # NoField) =>
    ~decoded.ok

(***************************************************************************)
(* Saving the credential store, with crashes                               *)
(***************************************************************************)
SpecFileInit ==
  /\ AuthQuiet /\ nonce_calls = <<>> /\ BufInit /\ CloudInit
  /\ SyncQuiet /\ FrameQuiet /\ FileInit /\ CmdInit /\ LogInit /\ HbQuiet /\ WsInit /\ NvQuiet /\ PathInit /\ FaultInit /\ FanQuiet /\ RuleInit /\ StreamQuiet /\ TenantInit /\ RecvInit
SpecFileNext ==
  \/ SaveReplace /\ UNCHANGED <<coreVars, exceptFile>>
  \/ SaveOpen /\ UNCHANGED <<coreVars, exceptFile>>
  \/ SaveWrite /\ UNCHANGED <<coreVars, exceptFile>>
  \/ SaveFails /\ UNCHANGED <<coreVars, exceptFile>>
  \/ Crash /\ UNCHANGED <<coreVars, exceptFile>>
  \/ load_database /\ UNCHANGED <<coreVars, exceptFile>>
SpecFile == SpecFileInit /\ [][SpecFileNext]_vars

\* C16: whenever the process stopped during a save, the next load yields the complete
\* contents from before the save or the complete contents being saved, never empty or
\* partial data.
C16_SaveAtomic ==
  load_last.done => load_last.data \in {save_last.prev, save_last.new}

(***************************************************************************)
(* Remote commands at the gateway                                          *)
(***************************************************************************)
SpecCmdInit ==
  /\ AuthQuiet /\ nonce_calls = <<>> /\ BufInit /\ CloudInit
  /\ SyncQuiet /\ FrameQuiet /\ FileInit /\ CmdInit /\ LogInit /\ HbQuiet /\ WsInit /\ NvQuiet /\ PathInit /\ FaultInit /\ FanQuiet /\ RuleInit /\ StreamQuiet /\ TenantInit /\ RecvInit
SpecCmdNext ==
  \/ \E d \in CommandDevices, c \in CommandIds :
       process_remote_command(d, c) /\ UNCHANGED <<coreVars, exceptCmd>>
  \/ \E c \in CommandIds :
       handle_status("keypad_01", c) /\ UNCHANGED <<coreVars, exceptCmd>>
  \/ cleanup_old_commands /\ UNCHANGED <<coreVars, exceptCmd>>
  \/ CmdTick /\ UNCHANGED <<coreVars, exceptCmd>>
SpecCmd == SpecCmdInit /\ [][SpecCmdNext]_vars

AckedInTime(c) ==
  c \in DOMAIN acked /\ acked[c] - received[c] <= command_timeout

\* C17: an accepted command stays in the pending table with its receipt time until a
\* sweep removes it; a sweep removes and reports as expired every command received
\* more than 30 s before it and not acknowledged; a command acknowledged within 30 s
\* of its receipt is never reported as expired.
C17_PendingExpiry ==
  /\ \A c \in DOMAIN received :
       \/ c \in DOMAIN pending_commands /\ pending_commands[c].timestamp = received[c]
       \/ c \in expired
  /\ \A c \in DOMAIN received :
       (c \notin DOMAIN acked /\ next_sweep - cleanup_interval - received[c] > command_timeout)
         => (c \in expired /\ c \notin DOMAIN pending_commands)
  /\ \A c \in CommandIds : AckedInTime(c) => c \notin expired

(***************************************************************************)
(* The cloud's command log                                                 *)
(***************************************************************************)
SpecCommandLogInit == SpecCloudInit
SpecCommandLogNext ==
  \/ \E g \in GatewayIds, d \in DeviceIds, owned \in BOOLEAN, inserted \in BOOLEAN,
        success \in BOOLEAN :
       send_command(g, d, owned, inserted, success)
         /\ UNCHANGED <<coreVars, exceptLog>>
  \/ \E i \in 1..Len(cloud_commands), t \in MsgTimes :
       \E r \in AckRoutes(cloud_commands[i]) :
         on_message(r, cloud_commands[i], t)
           /\ UNCHANGED <<authVars, nonce_calls, bufVars, exceptLog>>
  \/ ClockTick /\ UNCHANGED <<authVars, nonce_calls, bufVars, extVars>>
SpecCommandLog == SpecCommandLogInit /\ [][SpecCommandLogNext]_vars

EventAt(e) == CHOOSE i \in 1..Len(command_events) : command_events[i] = e

\* C18: every command the endpoint publishes has a command-log row with status 'sent'
\* inserted before the publish, and once the acknowledgement for a command_id has been
\* ingested the command log holds status 'completed' with completed_at for it.
C18_CommandLogLifecycle ==
  /\ \A i \in 1..Len(cloud_commands) :
       LET c == cloud_commands[i].command_id
       IN /\ InSeq(command_events, Event("insert", c))
          /\ EventAt(Event("insert", c)) < EventAt(Event("publish", c))
          /\ \E k \in 1..Len(command_logs) : command_logs[k].command_id = c
  /\ \A c \in ack_ingested :
       \E k \in 1..Len(command_logs) :
         /\ command_logs[k].command_id = c
         /\ command_logs[k].status = "completed"
         /\ command_logs[k].completed_at # NoTime

(***************************************************************************)
(* Gateway heartbeat and the liveness detector                             *)
(***************************************************************************)
SpecHeartbeatInit ==
  /\ AuthQuiet /\ nonce_calls = <<>> /\ BufInit /\ CloudInit
  /\ SyncQuiet /\ FrameQuiet /\ FileInit /\ CmdInit /\ LogInit /\ HbInit /\ WsInit /\ NvQuiet /\ PathInit /\ FaultInit /\ FanQuiet /\ RuleInit /\ StreamQuiet /\ TenantInit /\ RecvInit
SpecHeartbeatNext ==
  \/ heartbeat_loop /\ UNCHANGED <<coreVars, exceptHb>>
  \/ detection_loop /\ UNCHANGED <<coreVars, exceptHb>>
  \/ HbTick /\ UNCHANGED <<coreVars, exceptHb>>
SpecHeartbeat == SpecHeartbeatInit /\ [][SpecHeartbeatNext]_vars

LastBeat == IF hb_beats = <<>> THEN 0 ELSE hb_beats[Len(hb_beats)]

\* C19: with the cloud link up the gateway publishes a heartbeat every 30 s, the
\* gateway's last_seen is never older than gateway_timeout (90 s), and the detector
\* never marks the gateway offline.
C19_HeartbeatKeepsOnline ==
  /\ hb_now - LastBeat <= expected_heartbeat_interval
  /\ hb_now - hb_row.last_seen <= hb_gateway_timeout
  /\ hb_marked = {}

(***************************************************************************)
(* last_seen bookkeeping of the MQTT ingest                                *)
(***************************************************************************)
\* the ingest handles a message of gateway g about device d stamped t
DeviceMessage(g, d, t) ==
  \/ handle_telemetry(g, d, t)
  \/ handle_access(g, d, t)
  \/ \E w \in DeviceStatusWords : handle_device_status(g, d, w, t)

GatewayMessage(g, t) ==
  \E w \in GatewayStatusWords : handle_gateway_status(g, w, t)

\* C20: every message ingested for a device (telemetry, access, status) sets that
\* device's last_seen to the message's time, and every message ingested from a gateway,
\* of whatever kind, sets that gateway's last_seen to the message's time.
C20_LastSeenOnEveryMessage ==
  [][\A g \in GatewayIds, t \in MsgTimes :
       /\ \A d \in DeviceIds :
            DeviceMessage(g, d, t) =>
              /\ Row(g, d) \in DeviceRows => devices'[Row(g, d)].last_seen = t
              /\ gateways'[g].last_seen = t
       /\ GatewayMessage(g, t) => gateways'[g].last_seen = t]_vars

(***************************************************************************)
(* UI broadcasts                                                           *)
(***************************************************************************)
SpecWsInit ==
  /\ AuthQuiet /\ nonce_calls = <<>> /\ BufInit /\ CloudInit
  /\ SyncQuiet /\ FrameQuiet /\ FileInit /\ CmdInit /\ LogInit /\ HbQuiet /\ WsInit /\ NvQuiet /\ PathInit /\ FaultInit /\ FanQuiet /\ RuleInit /\ StreamQuiet /\ TenantInit /\ RecvInit
SpecWsNext ==
  \/ \E u \in Users : ws_queue_put(u) /\ UNCHANGED <<coreVars, exceptWs>>
  \/ \E w \in Sockets, ahead \in BOOLEAN : ws_connect(w, ahead) /\ UNCHANGED <<coreVars, exceptWs>>
  \/ \E w \in Sockets : ws_disconnect(w) /\ UNCHANGED <<coreVars, exceptWs>>
  \/ pump_get /\ UNCHANGED <<coreVars, exceptWs>>
  \/ \E sent \in BOOLEAN : pump_send(sent) /\ UNCHANGED <<coreVars, exceptWs>>
SpecWs == SpecWsInit /\ [][SpecWsNext]_vars

Delivered(w, id) == \E m \in ws_sent : m.websocket = w /\ m.id = id

\* C21: a descriptor taken off the queue is sent to every connection that is live for
\* its user while it is delivered (registered when the pump takes it and until the
\* broadcast ends, its send not failing), and what is sent goes only to connections
\* registered under the descriptor's user_id.
C21_BroadcastToUser ==
  /\ \A b \in ws_done :
       \A w \in b.live \ b.disconnected : Delivered(w, b.id)
  /\ \A m \in ws_sent : SocketUser(m.websocket) = m.user_id

(***************************************************************************)
(* Concurrent nonce validation                                             *)
(***************************************************************************)
SpecNonceThreadsInit ==
  /\ AuthQuiet /\ nonce_calls = <<>> /\ BufInit /\ CloudInit
  /\ SyncQuiet /\ FrameQuiet /\ FileInit /\ CmdInit /\ LogInit /\ HbQuiet /\ WsInit /\ NvInit /\ PathInit /\ FaultInit /\ FanQuiet /\ RuleInit /\ StreamQuiet /\ TenantInit /\ RecvInit
SpecNonceThreadsNext ==
  \/ \E t \in Threads : nv_call(t) /\ UNCHANGED <<coreVars, exceptNv>>
  \/ \E t \in Threads : nv_enter(t) /\ UNCHANGED <<coreVars, exceptNv>>
  \/ \E t \in Threads : nv_check(t) /\ UNCHANGED <<coreVars, exceptNv>>
  \/ \E t \in Threads : nv_insert(t) /\ UNCHANGED <<coreVars, exceptNv>>
SpecNonceThreads == SpecNonceThreadsInit /\ [][SpecNonceThreadsNext]_vars

Accepted(n) == {t \in Threads : nv_nonce[t] = n /\ nv_ret[t] = "True"}

\* C22: the membership check and the insertion are one atomic step: of the threads
\* validating the same nonce at most one is told true, and once two threads validating
\* the same nonce have both returned exactly one of them was told true.
C22_NonceCheckAtomic ==
  /\ \A n \in ThreadNonces : Cardinality(Accepted(n)) <= 1
  /\ \A n \in ThreadNonces :
       (\A t \in Threads : nv_nonce[t] = n /\ nv_ret[t] # "pending") => Cardinality(Accepted(n)) = 1
  /\ \A t, o \in Threads : (nv_pc[t] = "insert" /\ o # t) => nv_pc[o] \notin {"in", "insert"}

\* two threads with the same nonce, one calling while the other was inside, both back
C22_Witness ==
  /\ nv_overlap
  /\ nv_nonce["t1"] = nv_nonce["t2"]
  /\ \A t \in Threads : nv_ret[t] # "pending"

(***************************************************************************)
(* Commands from the cloud endpoint to the device                          *)
(***************************************************************************)
SpecCommandPathInit == SpecCloudInit
SpecCommandPathNext ==
  \/ \E g \in GatewayIds, d \in CommandDevices, owned \in BOOLEAN, inserted \in BOOLEAN,
        success \in BOOLEAN :
       send_command(g, d, owned, inserted, success)
         /\ UNCHANGED <<coreVars, syncVars, frameVars, fileVars, cmdVars, hbVars, wsVars,
                        nvVars, pathVars, faultVars, fanVars, ruleVars, streamVars, tenantVars, recvVars>>
  \/ \E i \in 1..Len(cloud_commands) :
       route_command(i)
         /\ UNCHANGED <<coreVars, syncVars, frameVars, fileVars, logVars, hbVars, wsVars,
                        nvVars, faultVars, fanVars, ruleVars, streamVars, tenantVars, recvVars>>
  \/ ClockTick /\ UNCHANGED <<authVars, nonce_calls, bufVars, extVars>>
SpecCommandPath == SpecCommandPathInit /\ [][SpecCommandPathNext]_vars

\* C24: a command the cloud endpoint published for a known, online device, once the
\* broker has routed it to the connected gateway, has been handed to that device's
\* transport.
C24_CommandReachesDevice ==
  \A i \in 1..Len(cloud_commands) :
    (cloud_commands[i].command_id \in cmd_routed /\ DeviceKnown(cloud_commands[i].device_id))
      => cloud_commands[i].command_id \in cmd_local_out

(***************************************************************************)
(* The offline detector under storage errors                               *)
(***************************************************************************)
SpecDetectorFaultsInit == SpecCloudInit
SpecDetectorFaultsNext ==
  \/ \E g \in GatewayIds, w \in GatewayStatusWords, t \in MsgTimes :
       handle_gateway_status(g, w, t)
         /\ UNCHANGED <<authVars, nonce_calls, bufVars, extVars>>
  \/ check_offline_gateways_mark
       /\ det_marks' = CountMarks(StaleGateways)
       /\ UNCHANGED <<authVars, nonce_calls, bufVars, exceptFault, faults, det_cascades>>
  \/ check_offline_gateways_cascade
       /\ det_cascades' = CountCascades(det_rows)
       /\ UNCHANGED <<authVars, nonce_calls, bufVars, exceptFault, faults, det_marks>>
  \/ check_offline_devices /\ UNCHANGED <<authVars, nonce_calls, bufVars, extVars>>
  \/ check_offline_gateways_update_fails
       /\ UNCHANGED <<authVars, nonce_calls, bufVars, exceptFault>>
  \/ \E logged \in SUBSET GatewayIds :
       check_offline_gateways_log_fails(logged)
         /\ UNCHANGED <<authVars, nonce_calls, bufVars, exceptFault>>
  \/ check_offline_gateways_cascade_fails
       /\ UNCHANGED <<authVars, nonce_calls, bufVars, exceptFault>>
  \/ \E logged \in SUBSET DeviceRows :
       check_offline_gateways_cascade_log_fails(logged)
         /\ UNCHANGED <<authVars, nonce_calls, bufVars, exceptFault>>
  \/ ClockTick /\ UNCHANGED <<authVars, nonce_calls, bufVars, extVars>>
SpecDetectorFaults == SpecDetectorFaultsInit /\ [][SpecDetectorFaultsNext]_vars

LoggedOffline(g) ==
  Cardinality({i \in 1..Len(system_logs) :
                 system_logs[i].event = "gateway_offline" /\ system_logs[i].gateway_id = g})

\* C25: when a tick of the detector is over, every offline transition of a gateway it
\* left behind is whole: each time the detector marked a gateway offline, the gateway's
\* offline log was written and the cascade over its devices was applied.
C25_NoPartialOfflineTransition ==
  det_pc = "idle" =>
    \A g \in GatewayIds :
      /\ LoggedOffline(g) = det_marks[g]
      /\ det_cascades[g] = det_marks[g]

(***************************************************************************)
(* Fan automation                                                           *)
(***************************************************************************)
SpecFanInit ==
  AuthQuiet /\ nonce_calls = <<>> /\ BufInit /\ CloudInit /\ SyncQuiet /\ FrameQuiet /\ FileInit /\ CmdInit /\ LogInit /\ HbQuiet /\ WsInit /\ NvQuiet /\ PathInit /\ FaultInit /\ FanInit /\ RuleInit /\ StreamQuiet /\ TenantInit /\ RecvInit
SpecFanNext ==
  \/ \E temperature \in Temperatures, local_connected \in BOOLEAN :
       temperature_sample(temperature, local_connected) /\ UNCHANGED <<coreVars, exceptFan>>
  \/ \E command \in FanCommands, local_connected \in BOOLEAN :
       handle_fan_command(command, local_connected) /\ UNCHANGED <<coreVars, exceptFan>>
SpecFan == SpecFanInit /\ [][SpecFanNext]_vars

\* C26: after a temperature sample the automation has sent fan_on exactly when it was
\* enabled, the temperature was at or above the threshold and the tracked fan state
\* was off or unknown; it has sent fan_off exactly when it was enabled, the temperature
\* was below the threshold and the tracked state was on or unknown; otherwise nothing.
C26_FanAutomation ==
  fan_sample.taken =>
    LET s == fan_sample
        threshold == temp_threshold(fan_build)
    IN /\ s.sent = "fan_on" <=>
            (s.enabled /\ s.temperature >= threshold /\ s.state \in {"off", Null})
       /\ s.sent = "fan_off" <=>
            (s.enabled /\ s.temperature < threshold /\ s.state \in {"on", Null})
       /\ s.sent \in {"fan_on", "fan_off", Null}

(***************************************************************************)
(* Access-rule evaluation                                                   *)
(***************************************************************************)
SpecRulesInit ==
  AuthQuiet /\ nonce_calls = <<>> /\ BufInit /\ CloudInit /\ SyncQuiet /\ FrameQuiet /\ FileInit /\ CmdInit /\ LogInit /\ HbQuiet /\ WsInit /\ NvQuiet /\ PathInit /\ FaultInit /\ FanQuiet /\ RuleInit /\ StreamQuiet /\ TenantInit /\ RecvInit
SpecRulesNext ==
  \/ \E b \in RuleBuilds, rules \in RuleConfigs \cup OverlappingRuleConfigs,
        method \in RuleMethods, user_id \in RuleUsers, t \in 0..(DayLength - 1) :
       call_check_access_rules(b, rules, method, user_id, t)
         /\ UNCHANGED <<coreVars, exceptRule>>
SpecRules == SpecRulesInit /\ [][SpecRulesNext]_vars

\* the enabled rules whose window contains the time of the call and that the call
\* violates
ViolatedRules(c) ==
  {k \in 1..Len(c.rules) :
     /\ c.rules[k].enabled
     /\ in_range(c.rules[k], TimeOfDay(c.t))
     /\ \/ c.method \notin c.rules[k].allowed_methods
        \/ c.user_id \in c.rules[k].restricted_users}

DenyReasons(name) ==
  {"method_not_allowed_" \o name, "access_denied_" \o name, "user_restricted_" \o name}

\* C27: check_access_rules allows exactly when no enabled rule whose window contains
\* the local time is violated by the method or the user, and a denial carries a reason
\* that ends with the name of a violated rule.
C27_AccessRules ==
  rule_call.made =>
    /\ rule_result.allowed <=> ViolatedRules(rule_call) = {}
    /\ ~rule_result.allowed =>
         \E k \in ViolatedRules(rule_call) :
           rule_result.reason \in DenyReasons(rule_call.rules[k].name)

(***************************************************************************)
(* The streaming frame parsers                                              *)
(***************************************************************************)
SpecStreamInit ==
  AuthQuiet /\ nonce_calls = <<>> /\ BufInit /\ CloudInit /\ SyncQuiet /\ FrameQuiet /\ FileInit /\ CmdInit /\ LogInit /\ HbQuiet /\ WsInit /\ NvQuiet /\ PathInit /\ FaultInit /\ FanQuiet /\ RuleInit /\ StreamInit /\ TenantInit /\ RecvInit
SpecStreamNext ==
  \/ \E n \in ChunkSizes : receive(n) /\ UNCHANGED <<coreVars, exceptStream>>
SpecStream == SpecStreamInit /\ [][SpecStreamNext]_vars

IsPrefix(s, t) == Len(s) <= Len(t) /\ SubSeq(t, 1, Len(s)) = s
IsSuffix(s, t) == Len(s) <= Len(t) /\ SubSeq(t, Len(t) - Len(s) + 1, Len(t)) = s

\* C28: whatever the chunks, the parser hands on the valid frames of the stream once
\* each and in stream order: what it has emitted is always a beginning of the stream's
\* frames, it is all of them once the stream is read, and the bytes of an incomplete
\* last frame are then still in the buffer.
C28_FramesOnceInOrder ==
  /\ IsPrefix(emitted, stream.frames)
  /\ fed = Len(stream.bytes) =>
       /\ emitted = stream.frames
       /\ IsSuffix(stream.trailing, lora_buffer)

\* C29: after every read the retained buffer starts at its first magic, if it holds
\* one, and is no longer than the largest frame.
C29_RetainedBufferBounded ==
  fed > 0 =>
    /\ Find(lora_buffer) \in {0, 1}
    /\ Len(lora_buffer) <= MaxFrameSize

(***************************************************************************)
(* Further claims about UI broadcasts                                       *)
(***************************************************************************)
\* the broadcasts that end with this step
EndingBroadcasts == {r \in ws_done' \ ws_done : r.outcome # "no_connections"}

\* C31: when a broadcast in which a send failed ends, the sockets whose send failed are
\* no longer in the user's set, the user has no empty set left, and every other socket
\* of the user that stayed connected during the broadcast has been sent the message.
C31_FailedSocketRemoved ==
  [][\A r \in EndingBroadcasts :
       r.disconnected # {} =>
         /\ r.disconnected \cap Get(active_connections', r.user_id, {}) = {}
         /\ Get(active_connections', r.user_id, {"none"}) # {}
         /\ \A w \in r.live \ r.disconnected :
              [websocket |-> w, id |-> r.id, user_id |-> r.user_id] \in ws_sent']_vars

(***************************************************************************)
(* Further claims about the store-and-forward buffer                        *)
(***************************************************************************)
\* C32: whenever the link is up, the gateway knows it, no callback of the cloud client
\* is pending or running (so no flush is in progress) and no thread is inside
\* forward_to_vps, the buffer is empty: every message was published directly or by the
\* flush of the reconnect.
C32_NothingStranded ==
  (/\ link_up /\ vps_connected
   /\ vps_events = <<>>
   /\ \A t \in Workers \cup {"vps"} : pc[t] = "idle")
    => buffer = <<>>

\* C33: a message that a flush took from the buffer and whose publish failed (the
\* link was down when it was handed to publish) is not lost: it is in the buffer, ahead
\* of every message enqueued after it, or a later publish of it went through.
C33_FailedFlushKept ==
  \A j \in 1..Len(published) :
    (published[j].flushed /\ ~published[j].ok) =>
      \/ \E k \in (j + 1)..Len(published) :
           published[k].id = published[j].id /\ published[k].ok
      \/ \E i \in 1..Len(buffer) :
           /\ buffer[i].id = published[j].id
           /\ \A h \in 1..(i - 1) :
                EnqueuePos(buffer[h].id) < EnqueuePos(buffer[i].id)

(***************************************************************************)
(* Tenant isolation in cloud ingest                                         *)
(***************************************************************************)
SpecTenantInit == SpecCloudInit
SpecTenantNext ==
  \/ \E g \in GatewayIds, d \in IngestDevices, picked \in DeviceRows :
       ingest_telemetry(g, d, picked) /\ UNCHANGED <<coreVars, exceptTenant>>
  \/ \E g \in GatewayIds, d \in IngestDevices, method \in {"passkey", "rfid"},
        identifier \in TenantPasswords \cup TenantCards,
        result \in {"granted", "denied"}, picked \in DeviceRows :
       ingest_access(g, d, method, identifier, result, picked)
         /\ UNCHANGED <<coreVars, exceptTenant>>
  \/ \E g \in GatewayIds, d \in IngestDevices :
       ingest_device_status(g, d) /\ UNCHANGED <<coreVars, exceptTenant>>
SpecTenant == SpecTenantInit /\ [][SpecTenantNext]_vars

\* the owner of the pair (device, gateway) a message names, if the pair exists
PairOwners(m) == {DeviceOwner(r) : r \in DevicesOf(m.device_id, m.gateway_id)}

\* C34: every row an ingested message inserts or updates belongs to the user who owns
\* the pair (device, gateway) of the message, and only that user is queued a
\* broadcast; when the pair does not exist nothing is written and nobody is queued.
C34_TenantIsolation ==
  tn_msg.made =>
    /\ \A w \in tn_writes : w.user_id \in PairOwners(tn_msg)
    /\ tn_broadcasts \subseteq PairOwners(tn_msg)

(***************************************************************************)
(* Claims about the nonce cache and requests rejected before the nonce     *)
(* check                                                                   *)
(***************************************************************************)
\* the checks handle_request runs before validate_nonce, read off the payload itself:
\* both fields present, the digest is the one the gateway key gives, the body parses,
\* the timestamp is within the tolerance (Gateway/main.py tests it only when truthy)
FailsBeforeNonce(b, payload, t) ==
  \/ ~payload.has_hmac
  \/ ~payload.has_body
  \/ compute_hmac(payload.body, hmac_key) # payload.hmac
  \/ ~payload.body.json_ok
  \/ IF b = "PD"
     THEN Abs(t - BodyTs(payload.body)) > timestamp_tolerance_seconds
     ELSE /\ payload.body.has_ts
          /\ payload.body.ts # 0
          /\ Abs(t - payload.body.ts) > timestamp_tolerance_seconds

\* C35: a request that fails the format, HMAC, JSON or timestamp check leaves the nonce
\* cache as it was, so the nonce it carried is not made a replay for a later request:
\* a step that changes the cache or calls validate_nonce is never the handling of such
\* a request
C35_RejectedRequestKeepsNonceCache ==
  [][(used_nonces' # used_nonces \/ Called(sec_calls', "validate_nonce") > 0)
       => \A d \in Devices, p \in Payloads(now) :
            FailsBeforeNonce(build, p, now)
              => ~(LocalRequest(d, p) \/ LocalRequestGM(d, p))]_vars

\* a request signed with another key and carrying nonce 1 was answered invalid_signature,
\* and nonce 1 is not in the cache
C35_Witness ==
  /\ \E d \in Devices : local_out = <<Lock(d, "invalid_signature")>>
  /\ Called(sec_calls, "record_failed_attempt") = 1
  /\ ~InSeq(used_nonces, 1)

(***************************************************************************)
(* Claims about the response to a request                                  *)
(***************************************************************************)
\* C36: after a request has been handled (sec_calls lists what the handler called; a
\* LoRa scan clears it) exactly one response has been published to the device: OPEN,
\* or LOCK with a reason
C36_OneResponsePerRequest ==
  sec_calls # <<>> =>
    /\ Len(local_out) = 1
    /\ local_out[1].device \in Devices
    /\ \/ local_out[1].cmd = "OPEN"
       \/ local_out[1].cmd = "LOCK" /\ local_out[1].reason # Null

(***************************************************************************)
(* Claims about requests met by a lockout                                  *)
(***************************************************************************)
\* C37: while a device is locked out no step changes the security state (its failure
\* counter, its lockout expiry, the nonce cache), and the expiry of a lockout is
\* lockout_duration after the last recorded failure of the device
C37_LockedOutRequestsChangeNothing ==
  /\ [](\A d \in Devices :
          d \in DOMAIN lockout_until =>
            lockout_until[d] = g_last[d] + lockout_duration_seconds)
  /\ [][\A d \in Devices :
          is_locked_out(SecState, d, now).ret =>
            /\ failed_attempts' = failed_attempts
            /\ lockout_until' = lockout_until
            /\ used_nonces' = used_nonces]_vars

\* a request received after the failure that locked the device was answered with the
\* lockout, and the device is still locked out
C37_Witness ==
  \E d \in Devices :
    /\ is_locked_out(SecState, d, now).ret
    /\ now > g_last[d]
    /\ sec_calls = <<"is_locked_out">>
    /\ \E reason \in {"locked_out", "device_locked_out"} : local_out = <<Lock(d, reason)>>

(***************************************************************************)
(* Recovery from offline                                                   *)
(***************************************************************************)
SpecRecoveryInit == SpecCloudInit
SpecRecoveryNext ==
  \/ \E g \in GatewayIds, d \in DeviceIds, t \in MsgTimes :
       on_message_telemetry(g, d, t) /\ UNCHANGED <<authVars, nonce_calls, bufVars, exceptRecv>>
  \/ \E g \in GatewayIds, d \in DeviceIds, t \in MsgTimes :
       on_message_access(g, d, t) /\ UNCHANGED <<authVars, nonce_calls, bufVars, exceptRecv>>
  \/ \E g \in GatewayIds, d \in DeviceIds, w \in DeviceStatusWords, t \in MsgTimes :
       on_message_device_status(g, d, w, t)
         /\ UNCHANGED <<authVars, nonce_calls, bufVars, exceptRecv>>
  \/ \E g \in GatewayIds, w \in GatewayStatusWords, t \in MsgTimes :
       on_message_gateway_status(g, w, t)
         /\ UNCHANGED <<authVars, nonce_calls, bufVars, exceptRecv>>
  \/ check_offline_gateways_mark /\ UNCHANGED <<authVars, nonce_calls, bufVars, extVars>>
  \/ check_offline_gateways_cascade /\ UNCHANGED <<authVars, nonce_calls, bufVars, extVars>>
  \/ check_offline_devices /\ UNCHANGED <<authVars, nonce_calls, bufVars, extVars>>
  \/ ClockTick /\ UNCHANGED <<authVars, nonce_calls, bufVars, extVars>>
SpecRecovery == SpecRecoveryInit /\ [][SpecRecoveryNext]_vars

\* C38: a message that sets a device or a gateway online leaves it online whatever its
\* status was, and a step of the detector turns a device or a gateway from online to
\* offline only when its timeout has elapsed since such a message was last received
C38_OfflineNotAbsorbing ==
  [][/\ \A r \in DeviceRows :
          /\ rc_dev'[r] # rc_dev[r] => devices'[r].status = "online"
          /\ (/\ det_pc' # det_pc
              /\ devices[r].status = "online"
              /\ devices'[r].status = "offline"
              /\ rc_dev[r].at # NoTime)
               => clock - rc_dev[r].at >= device_timeout
     /\ \A g \in GatewayIds :
          /\ rc_gw'[g] # rc_gw[g] => gateways'[g].status = "online"
          /\ (/\ det_pc' # det_pc
              /\ gateways[g].status = "online"
              /\ gateways'[g].status = "offline"
              /\ rc_gw[g].at # NoTime)
               => clock - rc_gw[g].at >= gateway_timeout]_vars

(***************************************************************************)
(* Claims about a broadcast interleaved with connect and disconnect        *)
(***************************************************************************)
\* C39: whatever connects or disconnects while a send is awaited, no broadcast ends by
\* raising, and every socket that was registered from the start of the broadcast to
\* its end was sent the message or had its own send fail
C39_BroadcastSafeUnderInterleaving ==
  \A b \in ws_done :
    /\ b.outcome # "RuntimeError"
    /\ \A w \in b.live : w \in b.disconnected \/ Delivered(w, b.id)

(***************************************************************************)
(* Claims about the tracked fan state                                      *)
(***************************************************************************)
\* the condition under which handle_temp_sensor_data issues a command for a temperature
IssuesCommand(state, temperature) ==
  \/ state = Null
  \/ temperature >= temp_threshold("PD") /\ state = "off"
  \/ temperature < temp_threshold("PD") /\ state = "on"

\* C40: fan_state changes only in a step that hands fan_on or fan_off to the local
\* broker, and then names that command; a sample whose command could not be handed over
\* leaves fan_state and the broker's commands as they were, so that the same
\* temperature issues the command again
C40_FanStateFollowsHandedCommands ==
  [][fan_build = "PD" =>
       /\ fan_state' # fan_state =>
            \E c \in {"fan_on", "fan_off"} :
              /\ fan_commands' = Append(fan_commands, c)
              /\ fan_state' = IF c = "fan_on" THEN "on" ELSE "off"
       /\ (fan_sample' # fan_sample /\ fan_sample'.sent # Null /\ ~fan_sample'.handed) =>
            /\ fan_state' = fan_state
            /\ fan_commands' = fan_commands
            /\ IssuesCommand(fan_state', fan_sample'.temperature)]_vars

\* fan_off was handed over and tracked; the fan_on a later sample issued could not be
\* handed over and the tracked state is still off
C40_Witness ==
  /\ fan_build = "PD"
  /\ fan_sample.sent = "fan_on"
  /\ ~fan_sample.handed
  /\ fan_state = "off"
  /\ fan_commands # <<>>
  /\ fan_commands[Len(fan_commands)] = "fan_off"

====
